---- MODULE Spec2Model ----
(***************************************************************************)
(* Model of the AI-guard wasm filter (wasm-filter/src).  Each component is *)
(* a record mirroring the Rust struct; each method is an operator from the *)
(* object (and its arguments) to the new object and the returned value.    *)
(* Bytes are naturals 0..255.  One specification per component drives the  *)
(* component with every call sequence within the bounds and records the    *)
(* calls in hist.                                                          *)
(***************************************************************************)
EXTENDS Integers, Sequences, FiniteSets, TLC

VARIABLES
    hist,    \* calls made so far on the object under study: args and return
    utf8,    \* a Utf8Buffer
    fsm,     \* a PatternScanner
    ring,    \* a RingBuffer
    bscan,   \* a StreamingBodyScanner
    ctx,     \* a GuardrailHttpContext
    host,    \* the proxy side of one request: headers, buffered body, responses
    limiter, \* a RateLimiter
    ws,      \* a McpWebSocketHandler
    sse,     \* a McpSseHandler
    root     \* a GuardrailRootContext

vars == <<hist, utf8, fsm, ring, bscan, ctx, host, limiter, ws, sse, root>>

(***************************************************************************)
(* Bounds of the model.                                                    *)
(***************************************************************************)
MaxLen == 4        \* total bytes fed to a streaming component
MaxCalls == 3      \* calls made on a streaming component

(***************************************************************************)
(* Generic helpers.                                                        *)
(***************************************************************************)
Min(a, b) == IF a < b THEN a ELSE b

Max(a, b) == IF a > b THEN a ELSE b

SaturatingSub(a, b) == IF a > b THEN a - b ELSE 0

Drop(s, n) == SubSeq(s, n + 1, Len(s))

Take(s, n) == SubSeq(s, 1, n)

SeqsUpTo(S, n) == UNION {[1..k -> S] : k \in 0..n}

RECURSIVE Flatten(_)
Flatten(ss) == IF ss = <<>> THEN <<>> ELSE Head(ss) \o Flatten(Tail(ss))

\* u8::to_ascii_lowercase
ToAsciiLower(b) == IF b >= 65 /\ b <= 90 THEN b + 32 ELSE b

LowerSeq(s) == [i \in 1..Len(s) |-> ToAsciiLower(s[i])]

\* s[at..] starts with p (at is 1-based)
OccursAt(p, s, at) ==
    /\ at + Len(p) - 1 <= Len(s)
    /\ \A j \in 1..Len(p) : s[at + j - 1] = p[j]

\* str::contains on byte strings
Contains(s, p) == \E at \in 1..(Len(s) + 1) : OccursAt(p, s, at)

(***************************************************************************)
(* streaming/utf8_buffer.rs                                                *)
(***************************************************************************)
None == [some |-> FALSE, val |-> <<>>]

Some(v) == [some |-> TRUE, val |-> v]

is_continuation(byte) == byte >= 128 /\ byte <= 191

sequence_length(first_byte) ==
    IF first_byte <= 127 THEN 1
    ELSE IF first_byte >= 192 /\ first_byte <= 223 THEN 2
    ELSE IF first_byte >= 224 /\ first_byte <= 239 THEN 3
    ELSE IF first_byte >= 240 /\ first_byte <= 247 THEN 4
    ELSE 1

\* Width of the well-formed UTF-8 scalar value that starts s, 0 when s does
\* not start with one (std::str::from_utf8's acceptance table).
Utf8CharWidth(s) ==
    LET b1 == s[1]
        cont(i) == Len(s) >= i /\ s[i] >= 128 /\ s[i] <= 191
        in2(lo, hi) == Len(s) >= 2 /\ s[2] >= lo /\ s[2] <= hi
    IN  IF b1 <= 127 THEN 1
        ELSE IF b1 >= 194 /\ b1 <= 223 THEN (IF cont(2) THEN 2 ELSE 0)
        ELSE IF b1 = 224 THEN (IF in2(160, 191) /\ cont(3) THEN 3 ELSE 0)
        ELSE IF b1 = 237 THEN (IF in2(128, 159) /\ cont(3) THEN 3 ELSE 0)
        ELSE IF b1 >= 225 /\ b1 <= 239 THEN (IF cont(2) /\ cont(3) THEN 3 ELSE 0)
        ELSE IF b1 = 240 THEN (IF in2(144, 191) /\ cont(3) /\ cont(4) THEN 4 ELSE 0)
        ELSE IF b1 = 244 THEN (IF in2(128, 143) /\ cont(3) /\ cont(4) THEN 4 ELSE 0)
        ELSE IF b1 >= 241 /\ b1 <= 243 THEN (IF cont(2) /\ cont(3) /\ cont(4) THEN 4 ELSE 0)
        ELSE 0

\* std::str::from_utf8(s).is_ok()
RECURSIVE from_utf8_is_ok(_)
from_utf8_is_ok(s) ==
    IF s = <<>> THEN TRUE
    ELSE LET w == Utf8CharWidth(s)
         IN  IF w = 0 THEN FALSE ELSE from_utf8_is_ok(Drop(s, w))

Utf8New == [leftover |-> <<0, 0, 0, 0>>, leftover_len |-> 0]

complete_sequence(self, chunk) ==
    IF self.leftover_len = 0 \/ chunk = <<>> THEN None
    ELSE LET expected_len == sequence_length(self.leftover[1])
             needed == SaturatingSub(expected_len, self.leftover_len)
         IN  IF needed = 0 \/ Len(chunk) < needed THEN None
             ELSE IF \E i \in 1..needed : ~is_continuation(chunk[i]) THEN None
             ELSE LET complete == Take(self.leftover, self.leftover_len)
                                      \o Take(chunk, needed)
                  IN  IF from_utf8_is_ok(complete) THEN Some(complete) ELSE None

\* The backward loop of find_valid_boundary with `available <= expected_len`
\* for its test: a sequence that is complete at the end of the chunk is
\* buffered too.
RECURSIVE FindBoundaryLoopStagesComplete(_, _)
FindBoundaryLoopStagesComplete(chunk, i) ==
    IF i > 0 /\ i > SaturatingSub(Len(chunk), 4)
    THEN LET k == i - 1
             byte == chunk[k + 1]
         IN  IF ~is_continuation(byte)
             THEN LET expected_len == sequence_length(byte)
                      available == Len(chunk) - k
                  IN  IF available <= expected_len
                      THEN <<k, Some(<<k, available>>)>>
                      ELSE <<Len(chunk), None>>
             ELSE FindBoundaryLoopStagesComplete(chunk, k)
    ELSE <<Len(chunk), None>>

\* The backward loop of find_valid_boundary; i is the 0-based index before
\* the decrement.  Result: <<valid_end, new_leftover>> with new_leftover an
\* Option of <<start, len>>.
RECURSIVE FindBoundaryLoop(_, _)
FindBoundaryLoop(chunk, i) ==
    IF i > 0 /\ i > SaturatingSub(Len(chunk), 4)
    THEN LET k == i - 1
             byte == chunk[k + 1]
         IN  IF ~is_continuation(byte)
             THEN LET expected_len == sequence_length(byte)
                      available == Len(chunk) - k
                  IN  IF available < expected_len
                      THEN <<k, Some(<<k, available>>)>>
                      ELSE <<Len(chunk), None>>
             ELSE FindBoundaryLoop(chunk, k)
    ELSE <<Len(chunk), None>>

find_valid_boundary(chunk) ==
    IF chunk = <<>> THEN <<0, None>> ELSE FindBoundaryLoop(chunk, Len(chunk))

\* Number of continuation bytes at the head of chunk
RECURSIVE LeadingContinuations(_)
LeadingContinuations(chunk) ==
    IF chunk # <<>> /\ is_continuation(Head(chunk))
    THEN 1 + LeadingContinuations(Tail(chunk))
    ELSE 0

\* The end of process_chunk: stores the incomplete sequence found at the
\* end of the chunk (fvb is find_valid_boundary's result on the chunk from
\* chunk_start on) and builds the ProcessedChunk.
Utf8StoreLeftover(self, chunk, prefix, chunk_start, fvb) ==
    LET valid_end == fvb[1]
        new_leftover == fvb[2]
        src_start == chunk_start + new_leftover.val[1]
        len == new_leftover.val[2]
        after == IF new_leftover.some
                 THEN [leftover |-> [i \in 1..4 |->
                                        IF i <= len THEN chunk[src_start + i]
                                        ELSE self.leftover[i]],
                       leftover_len |-> len]
                 ELSE [self EXCEPT !.leftover_len = 0]
    IN  [self |-> after,
         ret |-> [prefix |-> prefix,
                  main |-> Take(Drop(chunk, chunk_start), valid_end)]]

\* process_chunk from the point where chunk_start is known
Utf8FromChunkStart(self, chunk, prefix, chunk_start) ==
    Utf8StoreLeftover(self, chunk, prefix, chunk_start,
                      find_valid_boundary(Drop(chunk, chunk_start)))

\* Utf8Buffer::process_chunk: [self |-> the buffer afterwards,
\*                             ret |-> ProcessedChunk {prefix, main}]
Utf8ProcessChunk(self, chunk) ==
    LET prefix == IF self.leftover_len > 0 THEN complete_sequence(self, chunk)
                  ELSE None
    IN  Utf8FromChunkStart(self, chunk, prefix,
            IF prefix.some
            THEN Min(SaturatingSub(sequence_length(self.leftover[1]),
                                   self.leftover_len), Len(chunk))
            ELSE IF self.leftover_len > 0 THEN LeadingContinuations(chunk)
            ELSE 0)

\* Utf8Buffer::reset
Utf8Reset(self) == [self EXCEPT !.leftover_len = 0]

(***************************************************************************)
(* streaming/pattern_fsm.rs                                                *)
(***************************************************************************)
\* Pattern::from_string; str::to_lowercase is the ASCII folding on the
\* ASCII patterns of the model.
from_string(s) == [name |-> s, bytes |-> LowerSeq(s)]

\* PatternState::advance, on the cursor (position) of one pattern
advance(position, byte, pattern) ==
    LET byte_lower == ToAsciiLower(byte)
    IN  IF position < Len(pattern.bytes) /\ pattern.bytes[position + 1] = byte_lower
        THEN position + 1
        ELSE IF position > 0
        THEN (IF pattern.bytes # <<>> /\ pattern.bytes[1] = byte_lower
              THEN 1 ELSE 0)
        ELSE position

\* PatternState::is_match
is_match(position, pattern) == position >= Len(pattern.bytes)

Continue == [kind |-> "Continue", pattern_index |-> 0, position |-> 0,
             pattern_name |-> <<>>]

Match(i, pos, name) == [kind |-> "Match", pattern_index |-> i, position |-> pos,
                        pattern_name |-> name]

\* PatternScanner::new
ScannerNew(patterns) ==
    [patterns |-> patterns,
     states |-> [i \in 1..Len(patterns) |-> 0],
     bytes_scanned |-> 0]

\* The loop of scan_byte without the state.reset() of its match branch:
\* the cursor of a matched pattern stays at the pattern's length.
RECURSIVE ScanByteLoopKeepCursor(_, _, _)
ScanByteLoopKeepCursor(self, byte, i) ==
    IF i > Len(self.patterns) THEN [self |-> self, ret |-> Continue]
    ELSE LET pattern == self.patterns[i]
             pos == advance(self.states[i], byte, pattern)
         IN  IF is_match(pos, pattern)
             THEN [self |-> [self EXCEPT !.states[i] = pos],
                   ret |-> Match(i - 1, self.bytes_scanned, pattern.name)]
             ELSE ScanByteLoopKeepCursor([self EXCEPT !.states[i] = pos],
                                         byte, i + 1)

\* The loop of scan_byte from pattern i on (1-based); states holds the
\* cursors already advanced for this byte.
RECURSIVE ScanByteLoop(_, _, _)
ScanByteLoop(self, byte, i) ==
    IF i > Len(self.patterns) THEN [self |-> self, ret |-> Continue]
    ELSE LET pattern == self.patterns[i]
             pos == advance(self.states[i], byte, pattern)
         IN  IF is_match(pos, pattern)
             THEN [self |-> [self EXCEPT !.states[i] = 0],
                   ret |-> Match(i - 1, self.bytes_scanned, pattern.name)]
             ELSE ScanByteLoop([self EXCEPT !.states[i] = pos], byte, i + 1)

\* PatternScanner::scan_byte
scan_byte(self, byte) ==
    ScanByteLoop([self EXCEPT !.bytes_scanned = @ + 1], byte, 1)

\* PatternScanner::scan_bytes
RECURSIVE scan_bytes(_, _)
RECURSIVE ScanBytesRest(_, _)

\* The body of scan_bytes' loop once scan_byte has returned r for the
\* first byte of bytes
ScanBytesRest(r, bytes) ==
    IF r.ret.kind = "Match" THEN r ELSE scan_bytes(r.self, Tail(bytes))

scan_bytes(self, bytes) ==
    IF bytes = <<>> THEN [self |-> self, ret |-> Continue]
    ELSE ScanBytesRest(scan_byte(self, Head(bytes)), bytes)

\* PatternScanner::reset
ScannerReset(self) ==
    [self EXCEPT !.states = [i \in 1..Len(self.patterns) |-> 0],
                 !.bytes_scanned = 0]

(***************************************************************************)
(* streaming/ring_buffer.rs                                                *)
(***************************************************************************)
\* RingBuffer::new
RingNew(capacity, patterns) ==
    [buffer |-> [i \in 1..capacity |-> 0],
     capacity |-> capacity,
     write_pos |-> 0,
     total_written |-> 0,
     scanner |-> ScannerNew(patterns),
     utf8_handler |-> Utf8New]

\* The call panics: `self.buffer[self.write_pos]` is out of bounds in a
\* buffer of capacity 0
ScanPanic == [kind |-> "Panic", pattern_index |-> 0, position |-> 0,
              pattern_name |-> <<>>]

\* RingBuffer::write_and_scan
RECURSIVE write_and_scan(_, _)
RECURSIVE WriteAndScanRest(_, _)

\* One round of write_and_scan's loop: the byte written, the scanner as
\* scan_byte left it (r is scan_byte's result for the byte)
WriteByte(self, byte, r) ==
    [self |-> [self EXCEPT !.buffer[self.write_pos + 1] = byte,
                           !.write_pos = (self.write_pos + 1) % self.capacity,
                           !.total_written = @ + 1,
                           !.scanner = r.self],
     ret |-> r.ret]

\* The loop of write_and_scan that returns its match only after the rest
\* of the slice is written and scanned
WriteAndScanRestKeepsWriting(w, bytes) ==
    IF w.ret.kind = "Match"
    THEN [self |-> write_and_scan(w.self, Tail(bytes)).self, ret |-> w.ret]
    ELSE write_and_scan(w.self, Tail(bytes))

\* The loop of write_and_scan after its first round returned w
WriteAndScanRest(w, bytes) ==
    IF w.ret.kind = "Match" THEN w ELSE write_and_scan(w.self, Tail(bytes))

write_and_scan(self, bytes) ==
    IF bytes = <<>> THEN [self |-> self, ret |-> Continue]
    ELSE IF self.write_pos >= Len(self.buffer)
    THEN [self |-> self, ret |-> ScanPanic]
    ELSE WriteAndScanRest(
             WriteByte(self, Head(bytes), scan_byte(self.scanner, Head(bytes))),
             bytes)

\* process_chunk once the prefix was scanned with result p: the main part
RingScanMain(p, main) ==
    IF p.ret.kind # "Continue" THEN p ELSE write_and_scan(p.self, main)

\* process_chunk once utf8_handler.process_chunk returned u
RingScanProcessed(self, u) ==
    RingScanMain(IF u.ret.prefix.some
                 THEN write_and_scan([self EXCEPT !.utf8_handler = u.self],
                                     u.ret.prefix.val)
                 ELSE [self |-> [self EXCEPT !.utf8_handler = u.self],
                       ret |-> Continue],
                 u.ret.main)

\* process_chunk that forgets to scan the completed prefix
RingProcessChunkNoPrefix(self, chunk) ==
    LET u == Utf8ProcessChunk(self.utf8_handler, chunk)
    IN  write_and_scan([self EXCEPT !.utf8_handler = u.self], u.ret.main)

\* RingBuffer::process_chunk
RingProcessChunk(self, chunk) ==
    RingScanProcessed(self, Utf8ProcessChunk(self.utf8_handler, chunk))

\* RingBuffer::reset
RingReset(self) ==
    [self EXCEPT !.write_pos = 0, !.total_written = 0,
                 !.scanner = ScannerReset(self.scanner),
                 !.utf8_handler = Utf8Reset(self.utf8_handler)]

(***************************************************************************)
(* governance/body_scanner.rs                                              *)
(***************************************************************************)
DecContinue == [kind |-> "Continue", text |-> "", arg |-> <<>>]

DecAllow == [kind |-> "Allow", text |-> "", arg |-> <<>>]

\* ScanDecision::Block(format!("Pattern '{}' detected", name))
DecBlock(name) == [kind |-> "Block", text |-> "Pattern '{}' detected", arg |-> name]

\* No decision: the call panicked
DecPanic == [kind |-> "Panic", text |-> "index out of bounds", arg |-> <<>>]

DecSkip(reason) == [kind |-> "Skip", text |-> reason, arg |-> <<>>]

\* StreamingBodyScanner::with_patterns
BodyWithPatterns(patterns, buffer_size, max_bytes) ==
    [ring_buffer |-> RingNew(buffer_size,
                             [i \in 1..Len(patterns) |-> from_string(patterns[i])]),
     total_bytes_seen |-> 0,
     max_bytes |-> max_bytes,
     complete |-> FALSE]

\* The decision of on_body_chunk once ring_buffer.process_chunk returned r
BodyDecide(seen, end_of_stream, r) ==
    LET scanned == [seen EXCEPT !.ring_buffer = r.self]
    IN  IF r.ret.kind = "Match"
        THEN [self |-> [scanned EXCEPT !.complete = TRUE],
              ret |-> DecBlock(r.ret.pattern_name)]
        ELSE IF r.ret.kind = "Panic" THEN [self |-> seen, ret |-> DecPanic]
        ELSE IF end_of_stream
        THEN [self |-> [scanned EXCEPT !.complete = TRUE], ret |-> DecAllow]
        ELSE [self |-> scanned, ret |-> DecContinue]

\* The steps of on_body_chunk after the terminal check, with the size test
\* and the end-of-stream flag as given
BodyChunkSteps(self, chunk, end_of_stream, oversize) ==
    LET seen == [self EXCEPT !.total_bytes_seen = @ + Len(chunk)]
    IN  IF oversize
        THEN [self |-> [seen EXCEPT !.complete = TRUE],
              ret |-> DecSkip("Body exceeds max size")]
        ELSE BodyDecide(seen, end_of_stream,
                        RingProcessChunk(seen.ring_buffer, chunk))

\* on_body_chunk with the size limit tested by >= instead of >
on_body_chunk_ge(self, chunk, end_of_stream) ==
    IF self.complete THEN [self |-> self, ret |-> DecAllow]
    ELSE BodyChunkSteps(self, chunk, end_of_stream,
                        self.total_bytes_seen + Len(chunk) >= self.max_bytes)

\* on_body_chunk that never looks at end_of_stream
on_body_chunk_no_eos(self, chunk, end_of_stream) ==
    IF self.complete THEN [self |-> self, ret |-> DecAllow]
    ELSE BodyChunkSteps(self, chunk, FALSE,
                        self.total_bytes_seen + Len(chunk) > self.max_bytes)

\* StreamingBodyScanner::on_body_chunk
on_body_chunk(self, chunk, end_of_stream) ==
    IF self.complete THEN [self |-> self, ret |-> DecAllow]
    ELSE BodyChunkSteps(self, chunk, end_of_stream,
                        self.total_bytes_seen + Len(chunk) > self.max_bytes)

\* StreamingBodyScanner::reset
BodyReset(self) ==
    [self EXCEPT !.ring_buffer = RingReset(self.ring_buffer),
                 !.total_bytes_seen = 0,
                 !.complete = FALSE]

(***************************************************************************)
(* lib.rs: the filter controller, GuardrailHttpContext                     *)
(***************************************************************************)
\* "json", "text", "form"
StrJson == <<106, 115, 111, 110>>

StrText == <<116, 101, 120, 116>>

StrForm == <<102, 111, 114, 109>>

\* The test of on_http_request_headers on the content-type header: present
\* and containing none of json, text, form after lowercasing
IsNonTextContentType(content_type) ==
    /\ content_type.some
    /\ LET ct_lower == LowerSeq(content_type.val)
       IN  /\ ~Contains(ct_lower, StrJson)
           /\ ~Contains(ct_lower, StrText)
           /\ ~Contains(ct_lower, StrForm)

\* GuardrailHttpContext::new, with the configuration snapshot
HttpContextNew(config) ==
    [body_buffer |-> <<>>, request_blocked |-> FALSE, config |-> config]

\* The loop of contains_blocked_pattern from pattern i on
RECURSIVE BlockedPatternFrom(_, _, _)
BlockedPatternFrom(patterns, body_lower, i) ==
    IF i > Len(patterns) THEN None
    ELSE IF Contains(body_lower, LowerSeq(patterns[i])) THEN Some(patterns[i])
    ELSE BlockedPatternFrom(patterns, body_lower, i + 1)

\* GuardrailHttpContext::contains_blocked_pattern; str::to_lowercase is the
\* ASCII folding on the well-formed bodies of the model, which are ASCII.
contains_blocked_pattern(self, body) ==
    BlockedPatternFrom(self.config.blocked_patterns, LowerSeq(body), 1)

\* The synthetic response of send_block_response
BlockResponse(reason) ==
    [status |-> 403, error |-> "Prompt Injection Detected", reason |-> reason]

\* send_block_response that sends without marking the request blocked
send_block_response_unmarked(self, reason) ==
    [self |-> self, sent |-> <<BlockResponse(reason)>>]

\* GuardrailHttpContext::send_block_response: the context afterwards and the
\* responses handed to the host
send_block_response(self, reason) ==
    IF self.request_blocked THEN [self |-> self, sent |-> <<>>]
    ELSE [self |-> [self EXCEPT !.request_blocked = TRUE],
          sent |-> <<BlockResponse(reason)>>]

\* The host call get_http_request_body(start, max_size) on the body the host
\* has buffered
get_http_request_body(buffered, start, max_size) ==
    Some(SubSeq(buffered, start + 1, Min(start + max_size, Len(buffered))))

\* HttpContext::on_http_request_headers
on_http_request_headers(self, content_type) ==
    IF IsNonTextContentType(content_type)
    THEN [self |-> self, ret |-> "Continue", sent |-> <<>>]
    ELSE [self |-> self, ret |-> "Continue", sent |-> <<>>]

\* HttpContext::on_http_request_body
on_http_request_body(self, buffered, body_size, end_of_stream) ==
    IF self.request_blocked THEN [self |-> self, ret |-> "Pause", sent |-> <<>>]
    ELSE IF Len(self.body_buffer) + body_size > self.config.max_body_size
    THEN [self |-> self, ret |-> "Continue", sent |-> <<>>]
    ELSE LET body_chunk == get_http_request_body(buffered, 0, body_size)
             read == IF body_chunk.some
                     THEN [self EXCEPT !.body_buffer = @ \o body_chunk.val]
                     ELSE self
         IN  IF ~end_of_stream THEN [self |-> read, ret |-> "Pause", sent |-> <<>>]
             ELSE IF from_utf8_is_ok(read.body_buffer)
             THEN LET matched == contains_blocked_pattern(read, read.body_buffer)
                  IN  IF matched.some
                      THEN LET b == send_block_response(read, matched.val)
                           IN  [self |-> b.self, ret |-> "Pause", sent |-> b.sent]
                      ELSE [self |-> read, ret |-> "Continue", sent |-> <<>>]
             ELSE [self |-> read, ret |-> "Continue", sent |-> <<>>]

\* HttpContext::on_http_response_headers
on_http_response_headers(self) == [self |-> self, ret |-> "Continue", sent |-> <<>>]

(***************************************************************************)
(* Inputs of the model.  Bytes: 'a' 97, 'A' 65, 'b' 98, and the UTF-8      *)
(* bytes C3 (lead of 2), E2 (lead of 3), F0 (lead of 4), 9F (continuation).*)
(* C3 9F, E2 9F 9F and F0 9F 9F 9F are well-formed characters.             *)
(***************************************************************************)
Utf8Alphabet == {97, 195, 226, 240, 159}

FsmAlphabet == {97, 65, 98}

RingAlphabet == {97, 98, 195, 226, 159}

BodyAlphabet == {97, 98, 195}

\* The configured pattern strings are "ab", "aab", "B" and "Ab".

\* Pattern lists of a scanner, as configured
PatternLists ==
    {<<<<97, 98>>>>, <<<<97, 97, 98>>>>, <<<<66>>, <<65, 98>>>>, <<<<65, 98>>, <<66>>>>}

\* blocked_patterns lists of a body scanner
BlockedPatternLists == {<<<<97, 97, 98>>>>, <<<<65, 98>>, <<66>>>>}

Patterns(l) == [i \in 1..Len(l) |-> from_string(l[i])]

Unused == <<>>

\* The objects of the governance and protocol layers, which the streaming
\* and controller specifications leave alone
extVars == <<sse, root>>

ExtUnused == sse = Unused /\ root = Unused

layerVars == <<limiter, ws, extVars>>

LayersUnused == limiter = Unused /\ ws = Unused /\ ExtUnused

\* The bytes passed to the object so far, over all calls
Fed == Flatten([i \in 1..Len(hist) |-> hist[i].chunk])

\* The chunks that may still be fed: at most MaxCalls calls, MaxLen bytes
Chunks(alphabet) ==
    IF Len(hist) < MaxCalls THEN SeqsUpTo(alphabet, MaxLen - Len(Fed)) ELSE {}

(***************************************************************************)
(* SpecUtf8: a Utf8Buffer fed chunks                                       *)
(***************************************************************************)
Utf8Init ==
    /\ hist = <<>>
    /\ utf8 = Utf8New
    /\ fsm = Unused /\ ring = Unused /\ bscan = Unused
    /\ ctx = Unused /\ host = Unused
    /\ LayersUnused

Utf8Call(chunk) ==
    /\ LET r == Utf8ProcessChunk(utf8, chunk)
       IN  /\ utf8' = r.self
           /\ hist' = Append(hist, [chunk |-> chunk, ret |-> r.ret])
    /\ UNCHANGED <<fsm, ring, bscan, ctx, host, layerVars>>

Utf8Next == \E chunk \in Chunks(Utf8Alphabet) : Utf8Call(chunk)

SpecUtf8 == Utf8Init /\ [][Utf8Next]_vars

(***************************************************************************)
(* SpecFsm: a PatternScanner fed slices                                    *)
(***************************************************************************)
FsmInit ==
    /\ hist = <<>>
    /\ \E l \in PatternLists : fsm = ScannerNew(Patterns(l))
    /\ utf8 = Unused /\ ring = Unused /\ bscan = Unused
    /\ ctx = Unused /\ host = Unused
    /\ LayersUnused

FsmScanBytes(bytes) ==
    /\ LET r == scan_bytes(fsm, bytes)
       IN  /\ fsm' = r.self
           /\ hist' = Append(hist, [chunk |-> bytes, ret |-> r.ret])
    /\ UNCHANGED <<utf8, ring, bscan, ctx, host, layerVars>>

FsmNext == \E bytes \in Chunks(FsmAlphabet) : FsmScanBytes(bytes)

SpecFsm == FsmInit /\ [][FsmNext]_vars

(***************************************************************************)
(* SpecRing: a RingBuffer fed chunks                                       *)
(***************************************************************************)
RingCapacity == 3

RingInit ==
    /\ hist = <<>>
    /\ \E l \in PatternLists : ring = RingNew(RingCapacity, Patterns(l))
    /\ utf8 = Unused /\ fsm = Unused /\ bscan = Unused
    /\ ctx = Unused /\ host = Unused
    /\ LayersUnused

RingCall(chunk) ==
    /\ LET r == RingProcessChunk(ring, chunk)
       IN  /\ ring' = r.self
           /\ hist' = Append(hist, [chunk |-> chunk, ret |-> r.ret])
    /\ UNCHANGED <<utf8, fsm, bscan, ctx, host, layerVars>>

RingNext == \E chunk \in Chunks(RingAlphabet) : RingCall(chunk)

SpecRing == RingInit /\ [][RingNext]_vars

(***************************************************************************)
(* SpecBody: a StreamingBodyScanner fed chunks                             *)
(***************************************************************************)
\* max_body_size values of the model: a cap the stream can exceed, and one
\* it cannot
BodyMaxSizes == {2, MaxLen}

BodyInit ==
    /\ hist = <<>>
    /\ \E l \in BlockedPatternLists, m \in BodyMaxSizes :
           bscan = BodyWithPatterns(l, RingCapacity, m)
    /\ utf8 = Unused /\ fsm = Unused /\ ring = Unused
    /\ ctx = Unused /\ host = Unused
    /\ LayersUnused

BodyCall(chunk, end_of_stream) ==
    /\ LET r == on_body_chunk(bscan, chunk, end_of_stream)
       IN  /\ bscan' = r.self
           /\ hist' = Append(hist, [chunk |-> chunk, eos |-> end_of_stream,
                                    ret |-> r.ret])
    /\ UNCHANGED <<utf8, fsm, ring, ctx, host, layerVars>>

BodyNext ==
    \E chunk \in Chunks(BodyAlphabet), eos \in BOOLEAN :
        BodyCall(chunk, eos)

SpecBody == BodyInit /\ [][BodyNext]_vars

(***************************************************************************)
(* SpecCtl: one request through the filter controller.  The host calls the  *)
(* callbacks in order: request headers, request body (any number of times, *)
(* each reporting the total body buffered so far), response headers, log.  *)
(***************************************************************************)
CtlAlphabet == {97, 98, 195}

\* content-type headers: "image/png", "TEXT/plain", or none
ContentTypes ==
    {None,
     Some(<<105, 109, 97, 103, 101, 47, 112, 110, 103>>),
     Some(<<84, 69, 88, 84, 47, 112, 108, 97, 105, 110>>)}

\* Configurations: blocked_patterns "Ab"; "B" then "ab" under a small
\* max_body_size
CtlConfigs ==
    {[blocked_patterns |-> <<<<65, 98>>>>, max_body_size |-> 2 * MaxLen,
      log_matches |-> TRUE],
     [blocked_patterns |-> <<<<66>>, <<97, 98>>>>, max_body_size |-> 3,
      log_matches |-> TRUE]}

NoCall == [cb |-> "none", body_size |-> 0, eos |-> FALSE, was_blocked |-> FALSE,
           ret |-> "none"]

CtlInit ==
    /\ \E c \in CtlConfigs : ctx = HttpContextNew(c)
    /\ host = [phase |-> "new", content_type |-> None, body |-> <<>>,
               sent |-> <<>>, inspected_header |-> FALSE, last |-> NoCall]
    /\ hist = Unused
    /\ utf8 = Unused /\ fsm = Unused /\ ring = Unused /\ bscan = Unused
    /\ LayersUnused

CtlRequestHeaders(content_type) ==
    /\ host.phase = "new"
    /\ LET r == on_http_request_headers(ctx, content_type)
       IN  /\ ctx' = r.self
           /\ host' = [host EXCEPT !.phase = "body",
                                   !.content_type = content_type,
                                   !.last = [NoCall EXCEPT !.cb = "request_headers",
                                                           !.ret = r.ret]]
    /\ UNCHANGED <<hist, utf8, fsm, ring, bscan, layerVars>>

\* The host has buffered `more` further bytes and reports the new total
CtlRequestBody(more, end_of_stream) ==
    /\ host.phase = "body"
    /\ Len(host.body) + Len(more) <= MaxLen
    /\ LET buffered == host.body \o more
           r == on_http_request_body(ctx, buffered, Len(buffered), end_of_stream)
       IN  /\ ctx' = r.self
           /\ host' = [host EXCEPT !.body = buffered,
                                   !.sent = @ \o r.sent,
                                   !.last = [cb |-> "request_body",
                                             body_size |-> Len(buffered),
                                             eos |-> end_of_stream,
                                             was_blocked |-> ctx.request_blocked,
                                             ret |-> r.ret]]
    /\ UNCHANGED <<hist, utf8, fsm, ring, bscan, layerVars>>

CtlResponseHeaders ==
    /\ host.phase = "body"
    /\ LET r == on_http_response_headers(ctx)
       IN  /\ ctx' = r.self
           /\ host' = [host EXCEPT !.phase = "response",
                                   !.inspected_header = TRUE,
                                   !.last = [NoCall EXCEPT !.cb = "response_headers",
                                                           !.was_blocked = ctx.request_blocked,
                                                           !.ret = r.ret]]
    /\ UNCHANGED <<hist, utf8, fsm, ring, bscan, layerVars>>

\* on_log only writes a log line
CtlLog ==
    /\ host.phase = "response"
    /\ host' = [host EXCEPT !.phase = "done",
                            !.last = [NoCall EXCEPT !.cb = "log",
                                                    !.was_blocked = ctx.request_blocked]]
    /\ UNCHANGED <<ctx, hist, utf8, fsm, ring, bscan, layerVars>>

CtlNext ==
    \/ \E ct \in ContentTypes : CtlRequestHeaders(ct)
    \/ \E more \in SeqsUpTo(CtlAlphabet, MaxLen - Len(host.body)),
          eos \in BOOLEAN : CtlRequestBody(more, eos)
    \/ CtlResponseHeaders
    \/ CtlLog

SpecCtl == CtlInit /\ [][CtlNext]_vars

(***************************************************************************)
(* Claims on the streaming components                                      *)
(***************************************************************************)
Last(h) == h[Len(h)]

Terminal(d) == d.kind \in {"Allow", "Block", "Skip"}

\* Ending positions (1-based byte counts) in S of the occurrences of the
\* patterns, under ASCII case folding
Ends(S, patterns) ==
    {e \in 1..Len(S) : \E i \in 1..Len(patterns) :
        /\ e >= Len(patterns[i].bytes)
        /\ OccursAt(patterns[i].bytes, LowerSeq(S), e - Len(patterns[i].bytes) + 1)}

MinOf(set) == CHOOSE m \in set : \A x \in set : m <= x

\* Well-formed UTF-8, possibly cut inside its last character
ValidUtf8Prefix(s) == \E k \in 0..3 : from_utf8_is_ok(s \o [i \in 1..k |-> 159])

\* C1: once on_body_chunk has returned a terminal decision, every later call
\* returns that same decision, variant and reason.
C1_TerminalSticky ==
    \A i, j \in 1..Len(hist) :
        i < j /\ Terminal(hist[i].ret) => hist[j].ret = hist[i].ret

\* C2: the first scan_bytes call on a fresh PatternScanner reports a match iff
\* some pattern occurs in the slice under case folding, and the position is the
\* earliest ending position of an occurrence.
C2_EarliestOccurrence ==
    Len(hist) >= 1 =>
        LET S == hist[1].chunk
            r == hist[1].ret
            ends == Ends(S, fsm.patterns)
        IN  /\ (r.kind = "Match") <=> (ends # {})
            /\ r.kind = "Match" => r.position = MinOf(ends)

RingMatched == \E i \in 1..Len(hist) : hist[i].ret.kind = "Match"

OneSliceMatched ==
    scan_bytes(ScannerNew(ring.scanner.patterns), Fed).ret.kind = "Match"

\* C3 as stated: for any byte sequence and any chunking, the RingBuffer reports
\* a match on some chunk iff a fresh PatternScanner matches the sequence fed as
\* one slice.
C3_ChunkInvarianceAnyBytes == RingMatched <=> OneSliceMatched

\* C3 amended: the same equivalence for every well-formed UTF-8 sequence (and
\* the non-empty ASCII patterns of the model).
C3_ChunkInvarianceUtf8 == from_utf8_is_ok(Fed) => (RingMatched <=> OneSliceMatched)

\* A pattern found on the second chunk of a well-formed text whose first chunk
\* ends inside a multi-byte character
C3_Witness ==
    /\ Len(hist) = 2
    /\ from_utf8_is_ok(Fed)
    /\ ~from_utf8_is_ok(hist[1].chunk)
    /\ hist[1].ret.kind = "Continue"
    /\ hist[2].ret.kind = "Match"

\* The bytes handed on by the Utf8Buffer so far: prefix then main of every call
Emitted ==
    Flatten([i \in 1..Len(hist) |->
                hist[i].ret.prefix.val \o hist[i].ret.main])

\* C4: for well-formed UTF-8 input in any chunking, the emitted bytes followed
\* by the bytes still staged are exactly the input: nothing is dropped,
\* duplicated or reordered.
C4_Utf8Safety ==
    ValidUtf8Prefix(Fed) =>
        Emitted \o Take(utf8.leftover, utf8.leftover_len) = Fed

\* Index of the call whose chunk carries byte number e of the stream
RECURSIVE ChunkOf(_, _, _)
ChunkOf(h, e, i) ==
    IF Len(h[i].chunk) >= e THEN i ELSE ChunkOf(h, e - Len(h[i].chunk), i + 1)

\* C5: for a body within max_body_size, when the last byte of the earliest
\* occurrence of a blocked pattern arrives in chunk k, every call before k
\* (each with end_of_stream = false) returns Continue and call k returns
\* Block("Pattern '<name>' detected") with the name as configured.
C5_BlockOnChunkOfOccurrence ==
    LET patterns == bscan.ring_buffer.scanner.patterns
        ends == Ends(Fed, patterns)
    IN  (ends # {} /\ Len(Fed) <= bscan.max_bytes) =>
            LET e == MinOf(ends)
                k == ChunkOf(hist, e, 1)
            IN  (\A i \in 1..(k - 1) : ~hist[i].eos) =>
                    /\ \A i \in 1..(k - 1) : hist[i].ret = DecContinue
                    /\ \E p \in 1..Len(patterns) :
                          /\ e >= Len(patterns[p].bytes)
                          /\ OccursAt(patterns[p].bytes, LowerSeq(Fed),
                                      e - Len(patterns[p].bytes) + 1)
                          /\ hist[k].ret = DecBlock(patterns[p].name)

\* C6: a non-terminal scanner returns Skip("Body exceeds max size") exactly
\* when the bytes seen, this chunk included, exceed max_body_size, and then
\* nothing of the chunk is scanned.
C6_SkipIffOversize ==
    [][~bscan.complete =>
          LET call == Last(hist')
          IN  /\ (call.ret = DecSkip("Body exceeds max size"))
                    <=> (Len(Fed) + Len(call.chunk) > bscan.max_bytes)
              /\ call.ret.kind = "Skip" => bscan'.ring_buffer = bscan.ring_buffer
              /\ call.ret.kind = "Skip" => bscan'.complete]_vars

\* Skip on a chunk that would have completed a blocked pattern, and a scan of
\* a body of exactly max_body_size bytes that blocks
C6_Witness ==
    /\ Len(hist) >= 2
    /\ Last(hist).ret.kind = "Skip"
    /\ RingProcessChunk(bscan.ring_buffer, Last(hist).chunk).ret.kind = "Match"

\* C7: a non-terminal scanner given a chunk that neither exceeds the size
\* limit nor matches returns Allow with end_of_stream and Continue without.
C7_AllowAtEndOfStream ==
    [][(/\ ~bscan.complete
        /\ Len(Fed) + Len(Last(hist').chunk) <= bscan.max_bytes
        /\ RingProcessChunk(bscan.ring_buffer, Last(hist').chunk).ret.kind
              # "Match")
       => Last(hist').ret = IF Last(hist').eos THEN DecAllow ELSE DecContinue]_vars

\* Continue on a clean chunk, then Allow on the clean last chunk
C7_Witness ==
    /\ Len(hist) = 2
    /\ hist[1].chunk # <<>> /\ ~hist[1].eos /\ hist[1].ret = DecContinue
    /\ hist[2].chunk # <<>> /\ hist[2].eos /\ hist[2].ret = DecAllow

(***************************************************************************)
(* Claims on the filter controller                                         *)
(***************************************************************************)
\* C8: after a content-type header containing none of json, text, form, no
\* request-body callback inspects the body: no 403 is sent and each returns
\* Continue.
C8_NonTextNotInspected ==
    IsNonTextContentType(host.content_type) =>
        /\ host.sent = <<>>
        /\ host.last.cb = "request_body" => host.last.ret = "Continue"

\* C9: with the host reporting the total buffered so far, a request-body
\* callback on a context that has taken exactly the bytes buffered before
\* takes only the new suffix: afterwards it holds exactly the first new_total
\* bytes of the body, each once.
C9_ProgressiveAccounting ==
    [][(/\ host'.last.cb = "request_body"
        /\ ~ctx.request_blocked
        /\ Len(host'.body) <= ctx.config.max_body_size
        /\ ctx.body_buffer = host.body)
       => ctx'.body_buffer = host'.body]_vars

\* C10: the controller sends the synthetic 403 at most once per request.
C10_AtMostOneBlockResponse == Len(host.sent) <= 1

\* A final body callback arriving after the request was blocked
C10_Witness ==
    /\ Len(host.sent) = 1
    /\ host.last.cb = "request_body"
    /\ host.last.eos
    /\ host.last.was_blocked
    /\ contains_blocked_pattern(ctx, host.body).some

\* C11: once a block decision was emitted the request is marked blocked, and
\* every later request-body callback and the response-headers callback of the
\* request returns Pause.
C11_PauseAfterBlock ==
    /\ host.sent # <<>> => ctx.request_blocked
    /\ (host.last.cb \in {"request_body", "response_headers"}
        /\ host.last.was_blocked) => host.last.ret = "Pause"

(***************************************************************************)
(* governance/rate_limiter.rs                                              *)
(***************************************************************************)
\* The number of values of a u32 counter in the model (2^32 in the build);
\* sums of counters are taken modulo it where the build wraps.
U32Modulus == 8

U32Max == U32Modulus - 1

\* HashMap::new
EmptyMap == [k \in {} |-> 0]

\* HashMap::insert / the entry API's or_insert_with
MapPut(map, key, value) ==
    [k \in DOMAIN map \cup {key} |-> IF k = key THEN value ELSE map[k]]

\* HashMap::remove
MapRemove(map, key) == [k \in DOMAIN map \ {key} |-> map[k]]

RateState(request_count, token_count, window_start) ==
    [request_count |-> request_count, token_count |-> token_count,
     window_start |-> window_start]

\* RateLimiter::with_limits
with_limits(limits) ==
    [limits |-> limits, state |-> EmptyMap, window_seconds |-> 60]

RateAllow == [kind |-> "Allow", reason |-> "", limit |-> 0, current |-> 0,
              retry_after_secs |-> 0]

RateLimited(reason, limit, current, retry_after) ==
    [kind |-> "RateLimited", reason |-> reason, limit |-> limit,
     current |-> current, retry_after_secs |-> retry_after]

\* The call aborted on an arithmetic overflow (a build with overflow checks)
RatePanic == [kind |-> "Panic", reason |-> "attempt to add with overflow",
              limit |-> 0, current |-> 0, retry_after_secs |-> 0]

\* get_or_create_state that keeps the counters when the window has expired
get_or_create_state_keep(self, agent_id, current_time_secs) ==
    IF agent_id \in DOMAIN self.state
    THEN IF current_time_secs - self.state[agent_id].window_start
               >= self.window_seconds
         THEN [self EXCEPT !.state[agent_id].window_start = current_time_secs]
         ELSE self
    ELSE [self EXCEPT !.state =
              MapPut(@, agent_id, RateState(0, 0, current_time_secs))]

\* RateLimiter::get_or_create_state: the limiter afterwards; the entry the
\* code returns is state[agent_id].  The clock of the proxy does not run
\* backwards, so current_time_secs - window_start does not underflow.
get_or_create_state(self, agent_id, current_time_secs) ==
    IF agent_id \in DOMAIN self.state
    THEN IF current_time_secs - self.state[agent_id].window_start
               >= self.window_seconds
         THEN [self EXCEPT !.state[agent_id] =
                               RateState(0, 0, current_time_secs)]
         ELSE self
    ELSE [self EXCEPT !.state =
              MapPut(@, agent_id, RateState(0, 0, current_time_secs))]

\* retry_after_secs as the elapsed part of the window
retry_after_elapsed(self, state, current_time_secs) ==
    Min(current_time_secs - state.window_start, self.window_seconds)

\* The retry_after_secs of a RateLimitInfo
retry_after_secs(self, state, current_time_secs) ==
    self.window_seconds
        - Min(current_time_secs - state.window_start, self.window_seconds)

\* check_request once get_or_create_state has returned the entry
CheckRequestOn(self, agent_id, current_time_secs) ==
    IF self.state[agent_id].request_count >= self.limits.requests_per_minute
    THEN [self |-> self,
          ret |-> RateLimited("requests_per_minute exceeded",
                              self.limits.requests_per_minute,
                              self.state[agent_id].request_count,
                              retry_after_secs(self, self.state[agent_id],
                                               current_time_secs))]
    ELSE [self |-> [self EXCEPT !.state[agent_id].request_count = @ + 1],
          ret |-> RateAllow]

\* check_request that rejects only above the limit
check_request_gt(self, agent_id, current_time_secs) ==
    LET got == get_or_create_state(self, agent_id, current_time_secs)
    IN  IF got.state[agent_id].request_count > got.limits.requests_per_minute
        THEN CheckRequestOn(got, agent_id, current_time_secs)
        ELSE [self |-> [got EXCEPT !.state[agent_id].request_count = @ + 1],
              ret |-> RateAllow]

\* RateLimiter::check_request
check_request(self, agent_id, current_time_secs) ==
    CheckRequestOn(get_or_create_state(self, agent_id, current_time_secs),
                   agent_id, current_time_secs)

\* record_tokens once get_or_create_state has returned the entry.  The sum
\* token_count + tokens is a u32 sum: when it overflows, a build with
\* overflow checks aborts the call and a build without them wraps.
RecordTokensOn(self, agent_id, tokens, current_time_secs, overflow_checks) ==
    LET sum == self.state[agent_id].token_count + tokens
    IN  IF sum >= U32Modulus /\ overflow_checks
        THEN [self |-> self, ret |-> RatePanic]
        ELSE IF sum % U32Modulus > self.limits.tokens_per_minute
        THEN [self |-> self,
              ret |-> RateLimited("tokens_per_minute exceeded",
                                  self.limits.tokens_per_minute,
                                  self.state[agent_id].token_count,
                                  retry_after_secs(self, self.state[agent_id],
                                                   current_time_secs))]
        ELSE [self |-> [self EXCEPT !.state[agent_id].token_count =
                                        sum % U32Modulus],
              ret |-> RateAllow]

\* RateLimiter::record_tokens
record_tokens(self, agent_id, tokens, current_time_secs, overflow_checks) ==
    RecordTokensOn(get_or_create_state(self, agent_id, current_time_secs),
                   agent_id, tokens, current_time_secs, overflow_checks)

\* RateLimiter::reset_all
RateResetAll(self) == [self EXCEPT !.state = EmptyMap]

\* reset that clears every entry
RateResetClearsAll(self, agent_id) == RateResetAll(self)

\* RateLimiter::reset
RateReset(self, agent_id) == [self EXCEPT !.state = MapRemove(@, agent_id)]

(***************************************************************************)
(* SpecRate: a RateLimiter called for two identities under a clock that    *)
(* does not run backwards.  hist holds the build's overflow behaviour, the *)
(* clock, the last call, and for each identity the number of Allow answers *)
(* check_request gave in the window its entry reports.                     *)
(***************************************************************************)
AgentIds == {"a1", "a2"}

\* Clock readings: the start of a window, an instant inside it, its last
\* second, and its end
Times == {1000, 1002, 1059, 1060}

TokenDeltas == {1, 2, U32Max}

RateLimitConfigs ==
    {[requests_per_minute |-> 2, tokens_per_minute |-> 3,
      concurrent_requests |-> 10],
     [requests_per_minute |-> 0, tokens_per_minute |-> U32Max,
      concurrent_requests |-> 10]}

\* RateLimiter::get_state
get_state(self, agent_id) ==
    IF agent_id \in DOMAIN self.state THEN Some(self.state[agent_id]) ELSE None

\* A call: its arguments, get_state(agent_id) just before it, its answer
NoRateCall == [op |-> "none", agent_id |-> "", tokens |-> 0, t |-> 0,
               before |-> None, ret |-> RateAllow]

RateInit ==
    /\ \E l \in RateLimitConfigs : limiter = with_limits(l)
    /\ \E oc \in BOOLEAN :
           hist = [overflow_checks |-> oc, now |-> 1000, last |-> NoRateCall,
                   allowed |-> EmptyMap, aborted |-> FALSE]
    /\ utf8 = Unused /\ fsm = Unused /\ ring = Unused /\ bscan = Unused
    /\ ctx = Unused /\ host = Unused /\ ws = Unused /\ ExtUnused

\* The Allow count of agent_id's window after a check_request answered ret
\* and left the limiter as `after`: a window is known by the window_start
\* its entry reports.
AllowedAfter(agent_id, ret, after) ==
    LET same == /\ agent_id \in DOMAIN limiter.state
                /\ agent_id \in DOMAIN hist.allowed
                /\ after.state[agent_id].window_start
                       = limiter.state[agent_id].window_start
        before == IF same THEN hist.allowed[agent_id] ELSE 0
    IN  MapPut(hist.allowed, agent_id,
               IF ret.kind = "Allow" THEN before + 1 ELSE before)

RateCheck(agent_id, t) ==
    /\ ~hist.aborted
    /\ \E r \in {check_request(limiter, agent_id, t)} :
           /\ limiter' = r.self
           /\ hist' = [hist EXCEPT
                  !.now = t,
                  !.last = [op |-> "check_request", agent_id |-> agent_id,
                            tokens |-> 0, t |-> t,
                            before |-> get_state(limiter, agent_id),
                            ret |-> r.ret],
                  !.allowed = AllowedAfter(agent_id, r.ret, r.self)]
    /\ UNCHANGED <<utf8, fsm, ring, bscan, ctx, host, ws, extVars>>

RateRecord(agent_id, tokens, t) ==
    /\ ~hist.aborted
    /\ \E r \in {record_tokens(limiter, agent_id, tokens, t,
                               hist.overflow_checks)} :
           /\ limiter' = r.self
           /\ hist' = [hist EXCEPT
                  !.now = t,
                  !.last = [op |-> "record_tokens", agent_id |-> agent_id,
                            tokens |-> tokens, t |-> t,
                            before |-> get_state(limiter, agent_id),
                            ret |-> r.ret],
                  !.allowed = IF r.self.state[agent_id].request_count = 0
                              THEN MapRemove(@, agent_id) ELSE @,
                  !.aborted = r.ret.kind = "Panic"]
    /\ UNCHANGED <<utf8, fsm, ring, bscan, ctx, host, ws, extVars>>

RateResetCall(agent_id) ==
    /\ ~hist.aborted
    /\ limiter' = RateReset(limiter, agent_id)
    /\ hist' = [hist EXCEPT
           !.last = [NoRateCall EXCEPT !.op = "reset", !.agent_id = agent_id,
                                       !.before = get_state(limiter, agent_id)],
           !.allowed = [k \in DOMAIN @ \cap DOMAIN limiter'.state |-> @[k]]]
    /\ UNCHANGED <<utf8, fsm, ring, bscan, ctx, host, ws, extVars>>

RateNext ==
    \E agent_id \in AgentIds, t \in {x \in Times : x >= hist.now} :
        \/ RateCheck(agent_id, t)
        \/ \E tokens \in TokenDeltas : RateRecord(agent_id, tokens, t)
        \/ RateResetCall(agent_id)

SpecRate == RateInit /\ [][RateNext]_vars

(***************************************************************************)
(* Claims on the rate limiter                                              *)
(***************************************************************************)
\* The entry the last call worked on, and the counters its window had when
\* the call began: those of the entry before the call when that entry's
\* window had not run out, zero otherwise.
LastEntry == limiter.state[hist.last.agent_id]

LastInWindow ==
    /\ hist.last.before.some
    /\ hist.last.t - hist.last.before.val.window_start < 60

RequestsBefore ==
    IF LastInWindow THEN hist.last.before.val.request_count ELSE 0

TokensBefore == IF LastInWindow THEN hist.last.before.val.token_count ELSE 0

\* C12: in every window of every identity check_request answers Allow at most
\* requests_per_minute times; request_count never exceeds the limit; a check
\* is rejected exactly when the window's request_count has reached the limit,
\* and a rejected check leaves request_count as it was.
C12_RequestsWithinLimit ==
    /\ \A id \in DOMAIN hist.allowed :
           hist.allowed[id] <= limiter.limits.requests_per_minute
    /\ \A id \in DOMAIN limiter.state :
           limiter.state[id].request_count <= limiter.limits.requests_per_minute
    /\ hist.last.op = "check_request" =>
           /\ hist.last.ret.kind = "RateLimited"
                  <=> RequestsBefore >= limiter.limits.requests_per_minute
           /\ hist.last.ret.kind = "RateLimited"
                  => LastEntry.request_count = RequestsBefore
           /\ hist.last.ret.kind = "Allow"
                  => LastEntry.request_count = RequestsBefore + 1

\* The test's limiter (two requests per minute) rejecting a third check
C12_Witness ==
    /\ limiter.limits.requests_per_minute = 2
    /\ hist.last.op = "check_request"
    /\ hist.last.ret.kind = "RateLimited"
    /\ hist.allowed[hist.last.agent_id] = 2
    /\ LastEntry.request_count = 2

\* C13: with requests_per_minute >= 1, a check made 60 seconds or more after
\* the entry's window_start returns Allow and leaves the entry at
\* window_start = t, request_count = 1, token_count = 0.
C13_WindowReset ==
    (/\ hist.last.op = "check_request"
     /\ limiter.limits.requests_per_minute >= 1
     /\ hist.last.before.some
     /\ hist.last.t - hist.last.before.val.window_start >= 60)
    => /\ hist.last.ret.kind = "Allow"
       /\ LastEntry = RateState(1, 0, hist.last.t)

\* A check arriving after the window ran out on an entry that was at the
\* request limit and had tokens recorded
C13_Witness ==
    /\ hist.last.op = "check_request"
    /\ hist.last.before.some
    /\ hist.last.t - hist.last.before.val.window_start >= 60
    /\ hist.last.before.val.request_count = 2
    /\ hist.last.before.val.token_count > 0
    /\ LastEntry = RateState(1, 0, hist.last.t)

\* C14: whenever check_request or record_tokens answers RateLimited,
\* retry_after_secs is 60 - (t - window_start) for the identity's current
\* window and lies in 0..60.
C14_RetryAfter ==
    hist.last.ret.kind = "RateLimited" =>
        /\ hist.last.ret.retry_after_secs
               = 60 - (hist.last.t - LastEntry.window_start)
        /\ hist.last.ret.retry_after_secs \in 0..60

\* A window started at 1000 and a check rejected at 1002: retry after 58
C14_Witness ==
    /\ hist.last.op = "check_request"
    /\ hist.last.ret.kind = "RateLimited"
    /\ hist.last.t = 1002
    /\ LastEntry.window_start = 1000
    /\ hist.last.ret.retry_after_secs = 58

\* The limiter holding only agent_id's entry
OnlyEntryOf(self, agent_id) ==
    [self EXCEPT !.state = [k \in DOMAIN @ \cap {agent_id} |-> @[k]]]

\* C15: a call for one identity leaves the entry of every other identity as
\* it was, and its answer is the one the same call gets from a limiter that
\* holds no other identity's entry.
C15_PerIdentityIsolation ==
    [][/\ \A b \in AgentIds \ {hist'.last.agent_id} :
              get_state(limiter', b) = get_state(limiter, b)
       /\ hist'.last.op = "check_request" =>
              hist'.last.ret
                  = check_request(OnlyEntryOf(limiter, hist'.last.agent_id),
                                  hist'.last.agent_id, hist'.last.t).ret
       /\ hist'.last.op = "record_tokens" =>
              hist'.last.ret
                  = record_tokens(OnlyEntryOf(limiter, hist'.last.agent_id),
                                  hist'.last.agent_id, hist'.last.tokens,
                                  hist'.last.t, hist.overflow_checks).ret
      ]_vars

\* One identity is being rejected at its limit while the other, one request
\* into its own window, is served
C15_Witness ==
    /\ limiter.limits.requests_per_minute = 2
    /\ hist.last.op = "check_request"
    /\ hist.last.ret.kind = "Allow"
    /\ LastEntry.request_count = 1
    /\ \E a \in DOMAIN limiter.state \ {hist.last.agent_id} :
           /\ limiter.state[a].request_count = 2
           /\ limiter.state[a].window_start <= hist.last.t
           /\ hist.last.t - limiter.state[a].window_start < 60

\* C16: record_tokens answers RateLimited iff token_count + delta exceeds
\* tokens_per_minute in the identity's current window, and then leaves
\* token_count as it was; otherwise it answers Allow and token_count grows by
\* delta.  token_count never exceeds tokens_per_minute.
C16_TokensCheckedBeforeIncrement ==
    /\ \A id \in DOMAIN limiter.state :
           limiter.state[id].token_count <= limiter.limits.tokens_per_minute
    /\ hist.last.op = "record_tokens" =>
           IF TokensBefore + hist.last.tokens > limiter.limits.tokens_per_minute
           THEN /\ hist.last.ret.kind = "RateLimited"
                /\ LastEntry.token_count = TokensBefore
           ELSE /\ hist.last.ret.kind = "Allow"
                /\ LastEntry.token_count = TokensBefore + hist.last.tokens

(***************************************************************************)
(* serde_json::from_str, as far as the handlers use it: the JSON grammar   *)
(* over bytes (objects, arrays, strings with the one-character escapes,    *)
(* numbers, true, false, null, white space).  A parse answers              *)
(* [ok, pos, val]: pos is the index after the value.  Values are           *)
(* [t |-> "str", v |-> bytes], [t |-> "num", v |-> lexeme],                *)
(* [t |-> "lit", v |-> lexeme], [t |-> "arr", v |-> values] and            *)
(* [t |-> "obj", v |-> <<key bytes, value>> pairs in order].  \u escapes   *)
(* are not among the inputs of the model.                                  *)
(***************************************************************************)
JsonFail == [ok |-> FALSE, pos |-> 0, val |-> <<>>]

JsonOk(pos, val) == [ok |-> TRUE, pos |-> pos, val |-> val]

JsonLitTrue == <<116, 114, 117, 101>>

JsonLitFalse == <<102, 97, 108, 115, 101>>

JsonLitNull == <<110, 117, 108, 108>>

\* The bytes lit stand at index i of s
LitAt(s, i, lit) ==
    /\ i + Len(lit) - 1 <= Len(s)
    /\ SubSeq(s, i, i + Len(lit) - 1) = lit

ByteAt(s, i, b) == i <= Len(s) /\ s[i] = b

IsDigitAt(s, i) == i <= Len(s) /\ s[i] \in 48..57

RECURSIVE SkipWs(_, _)
SkipWs(s, i) ==
    IF i <= Len(s) /\ s[i] \in {32, 9, 10, 13} THEN SkipWs(s, i + 1) ELSE i

RECURSIVE SkipDigits(_, _)
SkipDigits(s, i) == IF IsDigitAt(s, i) THEN SkipDigits(s, i + 1) ELSE i

\* The character a one-character escape stands for; 0 when there is none
Unescape(b) ==
    CASE b = 34 -> 34 [] b = 92 -> 92 [] b = 47 -> 47 [] b = 98 -> 8
      [] b = 102 -> 12 [] b = 110 -> 10 [] b = 114 -> 13 [] b = 116 -> 9
      [] OTHER -> 0

\* A string from the byte after its opening quote; acc is the text so far
RECURSIVE ParseStringFrom(_, _, _)
ParseStringFrom(s, i, acc) ==
    IF i > Len(s) THEN JsonFail
    ELSE IF s[i] = 34 THEN JsonOk(i + 1, [t |-> "str", v |-> acc])
    ELSE IF s[i] = 92
    THEN IF i + 1 <= Len(s) /\ Unescape(s[i + 1]) # 0
         THEN ParseStringFrom(s, i + 2, Append(acc, Unescape(s[i + 1])))
         ELSE JsonFail
    ELSE IF s[i] < 32 THEN JsonFail
    ELSE ParseStringFrom(s, i + 1, Append(acc, s[i]))

\* A number whose lexeme starts at `start`: the exponent part from index i
NumberExp(s, start, i) ==
    IF i <= Len(s) /\ s[i] \in {101, 69}
    THEN LET d == IF i + 1 <= Len(s) /\ s[i + 1] \in {43, 45}
                  THEN i + 2 ELSE i + 1
         IN  IF IsDigitAt(s, d)
             THEN JsonOk(SkipDigits(s, d),
                         [t |-> "num", v |-> SubSeq(s, start, SkipDigits(s, d) - 1)])
             ELSE JsonFail
    ELSE JsonOk(i, [t |-> "num", v |-> SubSeq(s, start, i - 1)])

\* ... the fraction part from index i
NumberFrac(s, start, i) ==
    IF ByteAt(s, i, 46)
    THEN IF IsDigitAt(s, i + 1)
         THEN NumberExp(s, start, SkipDigits(s, i + 1))
         ELSE JsonFail
    ELSE NumberExp(s, start, i)

\* ... the integer part from index i (after the sign)
NumberInt(s, start, i) ==
    IF ByteAt(s, i, 48) THEN NumberFrac(s, start, i + 1)
    ELSE IF IsDigitAt(s, i) THEN NumberFrac(s, start, SkipDigits(s, i))
    ELSE JsonFail

ParseNumber(s, i) ==
    NumberInt(s, i, IF ByteAt(s, i, 45) THEN i + 1 ELSE i)

RECURSIVE ParseValue(_, _)
RECURSIVE ParseMembers(_, _, _)
RECURSIVE ParseElements(_, _, _)

\* An object's members once the value r of the member named key is parsed:
\* a comma and more members, or the closing brace
MembersAfterValue(s, key, r, acc) ==
    IF ~r.ok THEN JsonFail
    ELSE IF ByteAt(s, SkipWs(s, r.pos), 44)
    THEN ParseMembers(s, SkipWs(s, SkipWs(s, r.pos) + 1),
                      Append(acc, <<key, r.val>>))
    ELSE IF ByteAt(s, SkipWs(s, r.pos), 125)
    THEN JsonOk(SkipWs(s, r.pos) + 1,
                [t |-> "obj", v |-> Append(acc, <<key, r.val>>)])
    ELSE JsonFail

\* ... once the key k is parsed: a colon and the value
MembersAfterKey(s, k, acc) ==
    IF k.ok /\ ByteAt(s, SkipWs(s, k.pos), 58)
    THEN MembersAfterValue(s, k.val.v,
                           ParseValue(s, SkipWs(s, k.pos) + 1), acc)
    ELSE JsonFail

\* The members of an object from index i, where a key must start
ParseMembers(s, i, acc) ==
    IF ByteAt(s, i, 34)
    THEN MembersAfterKey(s, ParseStringFrom(s, i + 1, <<>>), acc)
    ELSE JsonFail

\* An array's elements once the element r is parsed
ElementsAfterValue(s, r, acc) ==
    IF ~r.ok THEN JsonFail
    ELSE IF ByteAt(s, SkipWs(s, r.pos), 44)
    THEN ParseElements(s, SkipWs(s, r.pos) + 1, Append(acc, r.val))
    ELSE IF ByteAt(s, SkipWs(s, r.pos), 93)
    THEN JsonOk(SkipWs(s, r.pos) + 1, [t |-> "arr", v |-> Append(acc, r.val)])
    ELSE JsonFail

ParseElements(s, i, acc) == ElementsAfterValue(s, ParseValue(s, i), acc)

\* The value that starts at index i, white space skipped
ValueAt(s, i) ==
    IF i > Len(s) THEN JsonFail
    ELSE IF s[i] = 34 THEN ParseStringFrom(s, i + 1, <<>>)
    ELSE IF s[i] = 123
    THEN IF ByteAt(s, SkipWs(s, i + 1), 125)
         THEN JsonOk(SkipWs(s, i + 1) + 1, [t |-> "obj", v |-> <<>>])
         ELSE ParseMembers(s, SkipWs(s, i + 1), <<>>)
    ELSE IF s[i] = 91
    THEN IF ByteAt(s, SkipWs(s, i + 1), 93)
         THEN JsonOk(SkipWs(s, i + 1) + 1, [t |-> "arr", v |-> <<>>])
         ELSE ParseElements(s, i + 1, <<>>)
    ELSE IF LitAt(s, i, JsonLitTrue)
    THEN JsonOk(i + 4, [t |-> "lit", v |-> JsonLitTrue])
    ELSE IF LitAt(s, i, JsonLitFalse)
    THEN JsonOk(i + 5, [t |-> "lit", v |-> JsonLitFalse])
    ELSE IF LitAt(s, i, JsonLitNull)
    THEN JsonOk(i + 4, [t |-> "lit", v |-> JsonLitNull])
    ELSE IF s[i] = 45 \/ s[i] \in 48..57 THEN ParseNumber(s, i)
    ELSE JsonFail

ParseValue(s, i) == ValueAt(s, SkipWs(s, i))

\* A whole text as one JSON value: nothing but white space may follow it
JsonDocument(s, r) ==
    IF r.ok /\ SkipWs(s, r.pos) = Len(s) + 1 THEN r ELSE JsonFail

JsonFromStr(s) == JsonDocument(s, ParseValue(s, 1))

(***************************************************************************)
(* protocols/mcp/jsonrpc.rs                                                *)
(***************************************************************************)
StrJsonrpc == <<106, 115, 111, 110, 114, 112, 99>>

StrMethod == <<109, 101, 116, 104, 111, 100>>

StrParams == <<112, 97, 114, 97, 109, 115>>

StrId == <<105, 100>>

\* "2.0"
StrTwoZero == <<50, 46, 48>>

\* "rpc."
StrRpcDot == <<114, 112, 99, 46>>

\* The values an object gives under the key name, in order
MembersNamed(members, name) ==
    SelectSeq(members, LAMBDA m : m[1] = name)

\* An Option<Value> field: absent or null is None
OptionValue(values) ==
    IF values = <<>> THEN None
    ELSE IF values[1].t = "lit" /\ values[1].v = JsonLitNull THEN None
    ELSE Some(values[1])

\* The derived Deserialize of JsonRpcRequest on a parsed value: from an
\* object (unknown keys skipped, a repeated known key refused, jsonrpc and
\* method required strings) or from an array of exactly the four fields.
JsonRpcRequestFromValue(val) ==
    IF val.t = "obj"
    THEN IF /\ \A name \in {StrJsonrpc, StrMethod, StrParams, StrId} :
                   Len(MembersNamed(val.v, name)) <= 1
            /\ Len(MembersNamed(val.v, StrJsonrpc)) = 1
            /\ MembersNamed(val.v, StrJsonrpc)[1][2].t = "str"
            /\ Len(MembersNamed(val.v, StrMethod)) = 1
            /\ MembersNamed(val.v, StrMethod)[1][2].t = "str"
         THEN Some([jsonrpc |-> MembersNamed(val.v, StrJsonrpc)[1][2].v,
                    method |-> MembersNamed(val.v, StrMethod)[1][2].v,
                    params |-> OptionValue([i \in 1..Len(MembersNamed(val.v, StrParams))
                                              |-> MembersNamed(val.v, StrParams)[i][2]]),
                    id |-> OptionValue([i \in 1..Len(MembersNamed(val.v, StrId))
                                          |-> MembersNamed(val.v, StrId)[i][2]])])
         ELSE None
    ELSE IF val.t = "arr"
    THEN IF Len(val.v) = 4 /\ val.v[1].t = "str" /\ val.v[2].t = "str"
         THEN Some([jsonrpc |-> val.v[1].v, method |-> val.v[2].v,
                    params |-> OptionValue(<<val.v[3]>>),
                    id |-> OptionValue(<<val.v[4]>>)])
         ELSE None
    ELSE None

\* serde_json::from_str::<JsonRpcRequest>
JsonRpcRequestFromStr(text) ==
    IF JsonFromStr(text).ok THEN JsonRpcRequestFromValue(JsonFromStr(text).val)
    ELSE None

\* JsonRpcRequest::validate: Ok, or the JsonRpcValidationError
JsonRpcValidate(self) ==
    IF self.jsonrpc # StrTwoZero
    THEN [ok |-> FALSE, err |-> "InvalidVersion", arg |-> self.jsonrpc]
    ELSE IF self.method = <<>>
    THEN [ok |-> FALSE, err |-> "EmptyMethod", arg |-> <<>>]
    ELSE IF Len(self.method) >= 4 /\ SubSeq(self.method, 1, 4) = StrRpcDot
    THEN [ok |-> FALSE, err |-> "ReservedMethod", arg |-> self.method]
    ELSE [ok |-> TRUE, err |-> "", arg |-> <<>>]

(***************************************************************************)
(* protocols/mcp/websocket.rs                                              *)
(***************************************************************************)
\* The ceiling of the fragment buffer in bytes (10 * 1024 * 1024 in the
\* build)
FragmentCeiling == 32

\* McpWebSocketHandler::new
WsNew ==
    [state |-> "Open", ring_buffer |-> None, fragment_buffer |-> <<>>,
     fragment_opcode |-> None, message_count |-> 0]

\* McpWebSocketHandler::init_patterns
init_patterns(self, patterns, buffer_size) ==
    [self EXCEPT !.ring_buffer =
        Some(RingNew(buffer_size,
                     [i \in 1..Len(patterns) |-> from_string(patterns[i])]))]

WsContinue == [kind |-> "Continue", text |-> "", arg |-> <<>>]

\* WsFrameAction::Block; arg is what the text's {} stands for
WsBlock(text, arg) == [kind |-> "Block", text |-> text, arg |-> arg]

\* McpWebSocketHandler::validate_message: Ok, or the error string
validate_message(self, payload) ==
    IF ~from_utf8_is_ok(payload)
    THEN [ok |-> FALSE, text |-> "Invalid UTF-8 in WebSocket message",
          arg |-> <<>>]
    ELSE IF JsonRpcRequestFromStr(payload).some
    THEN IF JsonRpcValidate(JsonRpcRequestFromStr(payload).val).ok
         THEN [ok |-> TRUE, text |-> "", arg |-> <<>>]
         ELSE [ok |-> FALSE, text |-> "Invalid JSON-RPC: {}",
               arg |-> JsonRpcValidate(JsonRpcRequestFromStr(payload).val)]
    ELSE [ok |-> TRUE, text |-> "", arg |-> <<>>]

\* The scan that opens on_text_frame and on_continuation_frame: the handler
\* with its ring buffer advanced, and the scan's result (Continue when no
\* ring buffer was set up)
WsScanned(self, r) ==
    [self |-> [self EXCEPT !.ring_buffer = Some(r.self)], ret |-> r.ret]

WsScan(self, payload) ==
    IF self.ring_buffer.some
    THEN WsScanned(self, RingProcessChunk(self.ring_buffer.val, payload))
    ELSE [self |-> self, ret |-> Continue]

WsPatternBlock(m) ==
    WsBlock("Pattern '{}' detected in WebSocket message", m.pattern_name)

\* The answer to a complete message whose validation gave v
WsValidated(v) == IF v.ok THEN WsContinue ELSE WsBlock(v.text, v.arg)

\* on_text_frame after the scan s of the payload
TextFrameAfterScan(s, payload, fin) ==
    IF s.ret.kind = "Match" THEN [self |-> s.self, ret |-> WsPatternBlock(s.ret)]
    ELSE IF fin
    THEN [self |-> [s.self EXCEPT !.message_count = @ + 1],
          ret |-> WsValidated(validate_message(s.self, payload))]
    ELSE [self |-> [s.self EXCEPT !.fragment_opcode = Some("Text"),
                                  !.fragment_buffer = @ \o payload],
          ret |-> WsContinue]

\* McpWebSocketHandler::on_text_frame
on_text_frame(self, payload, fin) ==
    TextFrameAfterScan(WsScan(self, payload), payload, fin)

\* The end of on_continuation_frame that leaves the fragment staged when
\* the validation of the complete message fails
ContinuationAppendedKeptOnError(self, fin) ==
    IF fin /\ self.fragment_opcode = Some("Text")
           /\ ~validate_message(self, self.fragment_buffer).ok
    THEN [self |-> [self EXCEPT !.message_count = @ + 1],
          ret |-> WsValidated(validate_message(self, self.fragment_buffer))]
    ELSE IF fin
    THEN [self |-> [self EXCEPT !.message_count = @ + 1,
                                !.fragment_buffer = <<>>,
                                !.fragment_opcode = None],
          ret |-> WsContinue]
    ELSE [self |-> self, ret |-> WsContinue]

\* The end of on_continuation_frame: the payload is in the fragment buffer
ContinuationAppended(self, fin) ==
    IF fin
    THEN [self |-> [self EXCEPT !.message_count = @ + 1,
                                !.fragment_buffer = <<>>,
                                !.fragment_opcode = None],
          ret |-> IF self.fragment_opcode = Some("Text")
                  THEN WsValidated(validate_message(self, self.fragment_buffer))
                  ELSE WsContinue]
    ELSE [self |-> self, ret |-> WsContinue]

\* on_continuation_frame after the scan found nothing, on a handler that
\* is taken to expect a continuation
ContinuationExpected(self, payload, fin) ==
    IF Len(self.fragment_buffer) + Len(payload) > FragmentCeiling
    THEN [self |-> [self EXCEPT !.fragment_buffer = <<>>,
                                !.fragment_opcode = None],
          ret |-> WsBlock("WebSocket message too large", <<>>)]
    ELSE ContinuationAppended([self EXCEPT !.fragment_buffer = @ \o payload],
                              fin)

\* on_continuation_frame after the scan s of the payload
ContinuationAfterScan(s, payload, fin) ==
    IF s.ret.kind = "Match" THEN [self |-> s.self, ret |-> WsPatternBlock(s.ret)]
    ELSE IF ~s.self.fragment_opcode.some
    THEN [self |-> s.self, ret |-> WsBlock("Unexpected continuation frame", <<>>)]
    ELSE ContinuationExpected(s.self, payload, fin)

\* on_continuation_frame that does not ask whether a fragment is staged
on_continuation_frame_unchecked(self, payload, fin) ==
    LET s == WsScan(self, payload)
    IN  IF s.ret.kind = "Match"
        THEN [self |-> s.self, ret |-> WsPatternBlock(s.ret)]
        ELSE ContinuationExpected(s.self, payload, fin)

\* McpWebSocketHandler::on_continuation_frame
on_continuation_frame(self, payload, fin) ==
    ContinuationAfterScan(WsScan(self, payload), payload, fin)

\* on_frame that treats a Binary frame as a Text frame
on_frame_binary_as_text(self, opcode, payload, fin) ==
    CASE opcode \in {"Text", "Binary"} -> on_text_frame(self, payload, fin)
      [] opcode = "Continuation" -> on_continuation_frame(self, payload, fin)
      [] opcode = "Close" ->
             [self |-> [self EXCEPT !.state = "Closing"], ret |-> WsContinue]
      [] opcode \in {"Ping", "Pong"} -> [self |-> self, ret |-> WsContinue]
      [] OTHER -> [self |-> self, ret |-> WsBlock("Unknown WebSocket opcode", <<>>)]

\* McpWebSocketHandler::on_frame
on_frame(self, opcode, payload, fin) ==
    CASE opcode = "Text" -> on_text_frame(self, payload, fin)
      [] opcode = "Binary" ->
             [self |-> self,
              ret |-> WsBlock("Binary WebSocket frames not allowed for MCP", <<>>)]
      [] opcode = "Continuation" -> on_continuation_frame(self, payload, fin)
      [] opcode = "Close" ->
             [self |-> [self EXCEPT !.state = "Closing"], ret |-> WsContinue]
      [] opcode \in {"Ping", "Pong"} -> [self |-> self, ret |-> WsContinue]
      [] opcode = "Unknown" ->
             [self |-> self, ret |-> WsBlock("Unknown WebSocket opcode", <<>>)]

\* McpWebSocketHandler::reset
WsReset(self) ==
    [self EXCEPT !.state = "Open", !.fragment_buffer = <<>>,
                 !.fragment_opcode = None, !.message_count = 0,
                 !.ring_buffer = IF @.some THEN Some(RingReset(@.val)) ELSE @]

(***************************************************************************)
(* SpecWs: a McpWebSocketHandler fed frames.  hist holds the number of     *)
(* frames so far and the last frame with its answer.                       *)
(***************************************************************************)
MaxFrames == 3     \* frames fed to a handler

\* {"jsonrpc":"2.0","method":"m"}: a valid request
MsgRequest ==
    <<123, 34, 106, 115, 111, 110, 114, 112, 99, 34, 58, 34, 50, 46, 48,
    34, 44, 34, 109, 101, 116, 104, 111, 100, 34, 58, 34, 109, 34, 125>>

\* {"jsonrpc":"1.0","method":"m"}: a request of the wrong version
MsgBadVersion ==
    <<123, 34, 106, 115, 111, 110, 114, 112, 99, 34, 58, 34, 49, 46, 48,
    34, 44, 34, 109, 101, 116, 104, 111, 100, 34, 58, 34, 109, 34, 125>>

\* The two halves of a message, as the frames of a fragmented message
FirstHalf(msg) == Take(msg, Len(msg) \div 2)

SecondHalf(msg) == Drop(msg, Len(msg) \div 2)

\* The frames of the model.  "a" and "b" are texts that are no JSON; the
\* byte C3 alone is no UTF-8.
WsFrames ==
    [opcode : {"Text"}, fin : {TRUE},
     payload : {MsgRequest, MsgBadVersion, <<97>>, <<98>>, <<195>>}]
    \cup [opcode : {"Text"}, fin : {FALSE},
          payload : {FirstHalf(MsgRequest), FirstHalf(MsgBadVersion), <<97>>,
                     MsgBadVersion}]
    \cup [opcode : {"Continuation"}, fin : {TRUE},
          payload : {SecondHalf(MsgRequest), <<98>>, MsgBadVersion}]
    \cup [opcode : {"Continuation"}, fin : {FALSE},
          payload : {SecondHalf(MsgRequest), <<98>>}]
    \cup {[opcode |-> "Binary", fin |-> TRUE, payload |-> <<195>>],
          [opcode |-> "Binary", fin |-> FALSE, payload |-> <<97>>]}
    \cup [opcode : {"Close", "Ping", "Pong", "Unknown"}, fin : {TRUE},
          payload : {<<>>}]

\* The handlers of the model: without patterns, and with the pattern "ab"
WsHandlers == {WsNew, init_patterns(WsNew, <<<<97, 98>>>>, RingCapacity)}

NoFrame == [opcode |-> "none", fin |-> FALSE, payload |-> <<>>,
            ret |-> WsContinue]

WsInit ==
    /\ ws \in WsHandlers
    /\ hist = [frames |-> 0, last |-> NoFrame]
    /\ utf8 = Unused /\ fsm = Unused /\ ring = Unused /\ bscan = Unused
    /\ ctx = Unused /\ host = Unused /\ limiter = Unused /\ ExtUnused

WsFrame(frame) ==
    /\ hist.frames < MaxFrames
    /\ \E r \in {on_frame(ws, frame.opcode, frame.payload, frame.fin)} :
           /\ ws' = r.self
           /\ hist' = [frames |-> hist.frames + 1,
                       last |-> [opcode |-> frame.opcode, fin |-> frame.fin,
                                 payload |-> frame.payload, ret |-> r.ret]]
    /\ UNCHANGED <<utf8, fsm, ring, bscan, ctx, host, limiter, extVars>>

\* A call of reset between frames
WsResetCall ==
    /\ hist.frames < MaxFrames
    /\ ws' = WsReset(ws)
    /\ hist' = [frames |-> hist.frames + 1,
                last |-> [NoFrame EXCEPT !.opcode = "reset"]]
    /\ UNCHANGED <<utf8, fsm, ring, bscan, ctx, host, limiter, extVars>>

WsNext ==
    \/ \E frame \in WsFrames : WsFrame(frame)
    \/ WsResetCall

SpecWs == WsInit /\ [][WsNext]_vars

(***************************************************************************)
(* Claims on the WebSocket handler                                         *)
(***************************************************************************)
\* C17: the fragment buffer never holds more than the ceiling.
C17_FragmentCeiling == Len(ws.fragment_buffer) <= FragmentCeiling

\* C18: a Binary frame is answered Block("Binary WebSocket frames not
\* allowed for MCP") and leaves the connection state, the fragment buffer,
\* the fragment opcode and the message count as they were.
C18_BinaryBlocked ==
    [][hist'.last.opcode = "Binary" =>
          /\ hist'.last.ret
                 = WsBlock("Binary WebSocket frames not allowed for MCP", <<>>)
          /\ ws'.state = ws.state
          /\ ws'.fragment_buffer = ws.fragment_buffer
          /\ ws'.fragment_opcode = ws.fragment_opcode
          /\ ws'.message_count = ws.message_count]_vars

\* A Binary frame blocked while a fragment is staged on a closing
\* connection that has seen a message
C18_Witness ==
    /\ hist.last.opcode = "Binary"
    /\ hist.last.ret.kind = "Block"
    /\ ws.fragment_opcode.some
    /\ ws.fragment_buffer # <<>>
    /\ ws.state = "Closing" \/ ws.message_count > 0

WsPatterns(self) ==
    IF self.ring_buffer.some THEN self.ring_buffer.val.scanner.patterns
    ELSE <<>>

\* C20: a complete text message (a final Text frame, or a staged text
\* fragment finished by a final Continuation frame) whose bytes contain no
\* blocked pattern is blocked only when it parses as a JSON-RPC request that
\* fails validate; a message that does not parse as a request is not
\* blocked.
C20_BestEffortValidation ==
    [][LET msg == IF hist'.last.opcode = "Text" THEN hist'.last.payload
                  ELSE ws.fragment_buffer \o hist'.last.payload
           complete ==
               /\ hist'.last.fin
               /\ \/ hist'.last.opcode = "Text"
                  \/ /\ hist'.last.opcode = "Continuation"
                     /\ ws.fragment_opcode = Some("Text")
                     /\ Len(msg) <= FragmentCeiling
           clean == \A i \in 1..Len(WsPatterns(ws)) :
                        ~Contains(LowerSeq(msg), WsPatterns(ws)[i].bytes)
       IN  (complete /\ clean /\ hist'.last.ret.kind = "Block") =>
               /\ JsonRpcRequestFromStr(msg).some
               /\ ~JsonRpcValidate(JsonRpcRequestFromStr(msg).val).ok]_vars

(***************************************************************************)
(* protocols/mcp/sse.rs                                                    *)
(***************************************************************************)
\* "event"
StrEvent == <<101, 118, 101, 110, 116>>

\* McpSseHandler::new
SseNew ==
    [ring_buffer |-> None, current_event |-> None, line_buffer |-> <<>>,
     state |-> "FieldName", current_field |-> <<>>]

\* McpSseHandler::init_patterns
SseInitPatterns(self, patterns, buffer_size) ==
    [self EXCEPT !.ring_buffer =
        Some(RingNew(buffer_size,
                     [i \in 1..Len(patterns) |-> from_string(patterns[i])]))]

SseContinue == [kind |-> "Continue", text |-> "", arg |-> <<>>]

SseBlock(text, arg) == [kind |-> "Block", text |-> text, arg |-> arg]

\* str::find(':'): the 0-based offset of the first colon, Len(line) if none
RECURSIVE FindColon(_, _)
FindColon(line, i) ==
    IF i >= Len(line) THEN Len(line)
    ELSE IF line[i + 1] = 58 THEN i
    ELSE FindColon(line, i + 1)

\* The value of a field line whose colon is at offset colon_pos
SseFieldValue(line, colon_pos) ==
    IF colon_pos + 1 < Len(line) /\ line[colon_pos + 2] = 32
    THEN Drop(line, colon_pos + 2)
    ELSE Drop(line, colon_pos + 1)

\* process_line for a line with a colon at colon_pos: only "event" is kept
SseField(self, line, colon_pos) ==
    IF colon_pos < Len(line) /\ Take(line, colon_pos) = StrEvent
    THEN [self EXCEPT !.current_event = Some(SseFieldValue(line, colon_pos)),
                      !.line_buffer = <<>>]
    ELSE [self EXCEPT !.line_buffer = <<>>]

\* McpSseHandler::process_line: the handler afterwards (it never answers
\* Block).  A line that is not UTF-8 leaves through `.ok()?` and stays in
\* line_buffer.
process_line(self) ==
    IF self.line_buffer = <<>> THEN [self EXCEPT !.current_event = None]
    ELSE IF ~from_utf8_is_ok(self.line_buffer) THEN self
    ELSE IF self.line_buffer[1] = 58 THEN [self EXCEPT !.line_buffer = <<>>]
    ELSE SseField(self, self.line_buffer, FindColon(self.line_buffer, 0))

\* The line loop of process_chunk from offset i of the chunk
RECURSIVE SseParseFrom(_, _, _)
SseParseFrom(self, chunk, i) ==
    IF i >= Len(chunk) THEN self
    ELSE IF chunk[i + 1] = 10
    THEN SseParseFrom(process_line(self), chunk, i + 1)
    ELSE IF chunk[i + 1] = 13 /\ i + 1 < Len(chunk) /\ chunk[i + 2] = 10
    THEN SseParseFrom(process_line(self), chunk, i + 2)
    ELSE SseParseFrom([self EXCEPT !.line_buffer = Append(@, chunk[i + 1])],
                      chunk, i + 1)

\* process_chunk once the ring buffer answered r for the chunk
SseAfterScan(self, chunk, r) ==
    IF r.ret.kind = "Match"
    THEN [self |-> [self EXCEPT !.ring_buffer = Some(r.self)],
          ret |-> SseBlock("Pattern '{}' detected in SSE stream",
                           r.ret.pattern_name)]
    ELSE [self |-> SseParseFrom([self EXCEPT !.ring_buffer = Some(r.self)],
                                chunk, 0),
          ret |-> SseContinue]

\* McpSseHandler::process_chunk
SseProcessChunk(self, chunk) ==
    IF self.ring_buffer.some
    THEN SseAfterScan(self, chunk, RingProcessChunk(self.ring_buffer.val, chunk))
    ELSE [self |-> SseParseFrom(self, chunk, 0), ret |-> SseContinue]

\* McpSseHandler::reset
SseReset(self) ==
    [self EXCEPT !.current_event = None, !.line_buffer = <<>>,
                 !.state = "FieldName", !.current_field = <<>>,
                 !.ring_buffer = IF @.some THEN Some(RingReset(@.val)) ELSE @]

(***************************************************************************)
(* SpecSse: a McpSseHandler fed chunks of an event stream.  hist holds the *)
(* chunks with their answers.                                              *)
(***************************************************************************)
\* Pieces of an event stream: "data: ", ": ", "event: a", "a", "aa", "ab",
\* "b", LF, CR LF, CR, the first byte of a two-byte character
SseChunks ==
    {<<100, 97, 116, 97, 58, 32>>, <<58, 32>>,
     <<101, 118, 101, 110, 116, 58, 32, 97>>,
     <<97>>, <<97, 97>>, <<97, 98>>, <<98>>,
     <<10>>, <<13, 10>>, <<13>>, <<195>>}

\* blocked patterns of the handlers: "ab", "aab"
SsePatternLists == {<<<<97, 98>>>>, <<<<97, 97, 98>>>>}

SseHandlers ==
    {SseNew} \cup {SseInitPatterns(SseNew, l, RingCapacity) : l \in SsePatternLists}

SseInit ==
    /\ hist = <<>>
    /\ sse \in SseHandlers
    /\ utf8 = Unused /\ fsm = Unused /\ ring = Unused /\ bscan = Unused
    /\ ctx = Unused /\ host = Unused /\ limiter = Unused /\ ws = Unused
    /\ root = Unused

SseCall(chunk) ==
    /\ Len(hist) < MaxCalls
    /\ \E r \in {SseProcessChunk(sse, chunk)} :
           /\ sse' = r.self
           /\ hist' = Append(hist, [chunk |-> chunk, ret |-> r.ret])
    /\ UNCHANGED <<utf8, fsm, ring, bscan, ctx, host, limiter, ws, root>>

SseNext == \E chunk \in SseChunks : SseCall(chunk)

SpecSse == SseInit /\ [][SseNext]_vars

(***************************************************************************)
(* Claims on the SSE handler                                               *)
(***************************************************************************)
\* The patterns an SSE handler scans for
SsePatterns(self) ==
    IF self.ring_buffer.some THEN self.ring_buffer.val.scanner.patterns
    ELSE <<>>

\* C21: once a blocked pattern lies in the bytes of the event stream fed so
\* far (in a data field, in a comment line or across chunks), some
\* process_chunk call has answered Block.
C21_PatternAnywhereBlocks ==
    (\E i \in 1..Len(SsePatterns(sse)) :
         Contains(LowerSeq(Fed), SsePatterns(sse)[i].bytes))
        => \E k \in 1..Len(hist) : hist[k].ret.kind = "Block"

(***************************************************************************)
(* protocols/mcp/mod.rs                                                    *)
(***************************************************************************)
StrUpgrade == <<117, 112, 103, 114, 97, 100, 101>>

StrWebsocket == <<119, 101, 98, 115, 111, 99, 107, 101, 116>>

StrAccept == <<97, 99, 99, 101, 112, 116>>

StrEventStream == <<116, 101, 120, 116, 47, 101, 118, 101, 110, 116, 45, 115, 116, 114, 101, 97, 109>>

StrXMcpTransport == <<120, 45, 109, 99, 112, 45, 116, 114, 97, 110, 115, 112, 111, 114, 116>>

StrHttp == <<104, 116, 116, 112>>

StrSse == <<115, 115, 101>>

StrStdio == <<115, 116, 100, 105, 111>>

\* The match on the lowered value of an x-mcp-transport header
ExplicitTransport(value_lower) ==
    IF value_lower = StrHttp THEN Some("Http")
    ELSE IF value_lower = StrSse THEN Some("Sse")
    ELSE IF value_lower = StrWebsocket THEN Some("WebSocket")
    ELSE IF value_lower = StrStdio THEN Some("Stdio")
    ELSE None

\* The body of detect's loop for one header: the value returned, if any
\* (a header is a pair <<name, value>> of ASCII strings)
DetectHeader(name_lower, value_lower) ==
    IF name_lower = StrUpgrade /\ value_lower = StrWebsocket
    THEN [returns |-> TRUE, ret |-> Some("WebSocket")]
    ELSE IF name_lower = StrAccept /\ Contains(value_lower, StrEventStream)
    THEN [returns |-> TRUE, ret |-> Some("Sse")]
    ELSE IF name_lower = StrXMcpTransport
    THEN [returns |-> TRUE, ret |-> ExplicitTransport(value_lower)]
    ELSE [returns |-> FALSE, ret |-> None]

\* detect's loop from header i on, with the body's result d for header i
RECURSIVE DetectFrom(_, _)
DetectStep(headers, i, d) ==
    IF d.returns THEN d.ret ELSE DetectFrom(headers, i + 1)

DetectFrom(headers, i) ==
    IF i > Len(headers) THEN Some("Http")
    ELSE DetectStep(headers, i,
                    DetectHeader(LowerSeq(headers[i][1]), LowerSeq(headers[i][2])))

\* McpTransport::detect
detect(headers) == DetectFrom(headers, 1)

(***************************************************************************)
(* SpecDetect: detect applied to a header list.  hist holds the list and   *)
(* the answer.                                                             *)
(***************************************************************************)
MaxHeaders == 3    \* headers of a request

\* Headers of a request: Upgrade, Accept, x-mcp-transport in several
\* spellings and values, and an unrelated header
HeaderPairs ==
    {<<<<85, 112, 103, 114, 97, 100, 101>>,
       <<119, 101, 98, 115, 111, 99, 107, 101, 116>>>>,
     <<<<117, 112, 103, 114, 97, 100, 101>>,
       <<87, 101, 98, 83, 111, 99, 107, 101, 116>>>>,
     <<<<85, 112, 103, 114, 97, 100, 101>>,
       <<104, 50, 99>>>>,
     <<<<65, 99, 99, 101, 112, 116>>,
       <<116, 101, 120, 116, 47, 101, 118, 101, 110, 116, 45, 115, 116, 114, 101, 97, 109>>>>,
     <<<<97, 99, 99, 101, 112, 116>>,
       <<97, 112, 112, 108, 105, 99, 97, 116, 105, 111, 110, 47, 106, 115, 111, 110, 44, 32, 116, 101, 120, 116, 47, 101, 118, 101, 110, 116, 45, 115, 116, 114, 101, 97, 109>>>>,
     <<<<65, 99, 99, 101, 112, 116>>,
       <<97, 112, 112, 108, 105, 99, 97, 116, 105, 111, 110, 47, 106, 115, 111, 110>>>>,
     <<<<120, 45, 109, 99, 112, 45, 116, 114, 97, 110, 115, 112, 111, 114, 116>>,
       <<104, 116, 116, 112>>>>,
     <<<<88, 45, 77, 67, 80, 45, 84, 114, 97, 110, 115, 112, 111, 114, 116>>,
       <<83, 83, 69>>>>,
     <<<<120, 45, 109, 99, 112, 45, 116, 114, 97, 110, 115, 112, 111, 114, 116>>,
       <<119, 101, 98, 115, 111, 99, 107, 101, 116>>>>,
     <<<<120, 45, 109, 99, 112, 45, 116, 114, 97, 110, 115, 112, 111, 114, 116>>,
       <<115, 116, 100, 105, 111>>>>,
     <<<<120, 45, 109, 99, 112, 45, 116, 114, 97, 110, 115, 112, 111, 114, 116>>,
       <<103, 114, 112, 99>>>>,
     <<<<104, 111, 115, 116>>,
       <<109, 99, 112>>>>}

DetectInit ==
    /\ \E headers \in SeqsUpTo(HeaderPairs, MaxHeaders) :
           hist = [headers |-> headers, called |-> FALSE, ret |-> None]
    /\ utf8 = Unused /\ fsm = Unused /\ ring = Unused /\ bscan = Unused
    /\ ctx = Unused /\ host = Unused /\ LayersUnused

DetectCall ==
    /\ ~hist.called
    /\ hist' = [hist EXCEPT !.called = TRUE, !.ret = detect(hist.headers)]
    /\ UNCHANGED <<utf8, fsm, ring, bscan, ctx, host, layerVars>>

DetectNext == DetectCall

SpecDetect == DetectInit /\ [][DetectNext]_vars

(***************************************************************************)
(* Claims on the transport detection                                       *)
(***************************************************************************)
\* The transports named by the x-mcp-transport headers of a list
ExplicitTransports(headers) ==
    {ExplicitTransport(LowerSeq(headers[i][2])) :
         i \in {j \in 1..Len(headers) :
                    LowerSeq(headers[j][1]) = StrXMcpTransport}} \ {None}

HasUpgradeWebsocket(headers) ==
    \E i \in 1..Len(headers) :
        LowerSeq(headers[i][1]) = StrUpgrade /\ LowerSeq(headers[i][2]) = StrWebsocket

HasAcceptEventStream(headers) ==
    \E i \in 1..Len(headers) :
        /\ LowerSeq(headers[i][1]) = StrAccept
        /\ Contains(LowerSeq(headers[i][2]), StrEventStream)

HasExplicit(headers) ==
    \E i \in 1..Len(headers) : LowerSeq(headers[i][1]) = StrXMcpTransport

\* C22: with an x-mcp-transport header naming http, sse, websocket or stdio
\* in the list, detect returns that transport, wherever the header stands;
\* with no x-mcp-transport header, Upgrade: websocket gives WebSocket, an
\* Accept containing text/event-stream gives Sse, and anything else Http.
C22_ExplicitOverrides ==
    hist.called =>
        /\ ExplicitTransports(hist.headers) # {} =>
               hist.ret \in ExplicitTransports(hist.headers)
        /\ ~HasExplicit(hist.headers) =>
               /\ hist.ret.some
               /\ hist.ret.val = "WebSocket" => HasUpgradeWebsocket(hist.headers)
               /\ hist.ret.val = "Sse" => HasAcceptEventStream(hist.headers)
               /\ hist.ret.val = "Http" =>
                      /\ ~HasUpgradeWebsocket(hist.headers)
                      /\ ~HasAcceptEventStream(hist.headers)

(***************************************************************************)
(* protocols/mcp/http.rs                                                   *)
(***************************************************************************)
\* "*"
StrStar == <<42>>

\* McpHttpHandler::new
HttpHandlerNew(allowed_methods) == [allowed_methods |-> allowed_methods]

\* McpHttpHandler::is_method_allowed
is_method_allowed(self, method) ==
    \E i \in 1..Len(self.allowed_methods) :
        self.allowed_methods[i] = StrStar \/ self.allowed_methods[i] = method

\* serde_json::from_slice: the bytes must be UTF-8, then as from_str
JsonFromSlice(body) == IF from_utf8_is_ok(body) THEN JsonFromStr(body) ELSE JsonFail

\* serde_json::from_slice::<Vec<JsonRpcRequest>>: the requests of an array
\* whose elements all deserialize, None otherwise
RequestsFromValue(r) ==
    IF r.ok /\ r.val.t = "arr"
          /\ \A i \in 1..Len(r.val.v) : JsonRpcRequestFromValue(r.val.v[i]).some
    THEN Some([i \in 1..Len(r.val.v) |-> JsonRpcRequestFromValue(r.val.v[i]).val])
    ELSE None

McpOk(val) == [ok |-> TRUE, err |-> "", arg |-> val]

McpErr(err, arg) == [ok |-> FALSE, err |-> err, arg |-> arg]

\* The loop of validate_batch from request i on
RECURSIVE ValidateBatchFrom(_, _, _)
ValidateBatchFrom(self, requests, i) ==
    IF i > Len(requests) THEN McpOk(requests)
    ELSE IF ~JsonRpcValidate(requests[i]).ok
    THEN McpErr("InvalidFormat", JsonRpcValidate(requests[i]).err)
    ELSE IF ~is_method_allowed(self, requests[i].method)
    THEN McpErr("MethodNotAllowed", requests[i].method)
    ELSE ValidateBatchFrom(self, requests, i + 1)

\* validate_batch once the body was deserialized to r
ValidateBatchParsed(self, r) ==
    IF ~r.some THEN McpErr("InvalidJson", <<>>)
    ELSE ValidateBatchFrom(self, r.val, 1)

\* validate_batch that looks at the last request only
validate_batch_last_only(self, body) ==
    IF ~RequestsFromValue(JsonFromSlice(body)).some THEN McpErr("InvalidJson", <<>>)
    ELSE ValidateBatchFrom(self, RequestsFromValue(JsonFromSlice(body)).val,
                           Max(1, Len(RequestsFromValue(JsonFromSlice(body)).val)))

\* McpHttpHandler::validate_batch
validate_batch(self, body) ==
    ValidateBatchParsed(self, RequestsFromValue(JsonFromSlice(body)))

(***************************************************************************)
(* SpecBatch: validate_batch applied to a body.  hist holds the body and   *)
(* the answer.                                                             *)
(***************************************************************************)
MaxBatch == 2      \* elements of a batch

\* Elements of a batch, as written in the body
BatchElements ==
    {\* {"jsonrpc":"2.0","method":"m"}
     <<123, 34, 106, 115, 111, 110, 114, 112, 99, 34, 58, 34, 50, 46, 48, 34, 44, 34, 109, 101, 116, 104, 111, 100, 34, 58, 34, 109, 34, 125>>,
     \* {"jsonrpc":"2.0","method":"p","id":1}
     <<123, 34, 106, 115, 111, 110, 114, 112, 99, 34, 58, 34, 50, 46, 48, 34, 44, 34, 109, 101, 116, 104, 111, 100, 34, 58, 34, 112, 34, 44, 34, 105, 100, 34, 58, 49, 125>>,
     \* {"jsonrpc":"1.0","method":"m"}
     <<123, 34, 106, 115, 111, 110, 114, 112, 99, 34, 58, 34, 49, 46, 48, 34, 44, 34, 109, 101, 116, 104, 111, 100, 34, 58, 34, 109, 34, 125>>,
     \* {"jsonrpc":"2.0","method":""}
     <<123, 34, 106, 115, 111, 110, 114, 112, 99, 34, 58, 34, 50, 46, 48, 34, 44, 34, 109, 101, 116, 104, 111, 100, 34, 58, 34, 34, 125>>,
     \* {"jsonrpc":"2.0","method":"rpc.x"}
     <<123, 34, 106, 115, 111, 110, 114, 112, 99, 34, 58, 34, 50, 46, 48, 34, 44, 34, 109, 101, 116, 104, 111, 100, 34, 58, 34, 114, 112, 99, 46, 120, 34, 125>>,
     \* {"method":"m"}
     <<123, 34, 109, 101, 116, 104, 111, 100, 34, 58, 34, 109, 34, 125>>,
     \* 1
     <<49>>,
     \* ["2.0","m",null,null]
     <<91, 34, 50, 46, 48, 34, 44, 34, 109, 34, 44, 110, 117, 108, 108, 44, 110, 117, 108, 108, 93>>}

\* "[" e1 "," e2 ... "]"
RECURSIVE JoinElements(_)
JoinElements(es) ==
    IF es = <<>> THEN <<>>
    ELSE IF Len(es) = 1 THEN es[1]
    ELSE es[1] \o <<44>> \o JoinElements(Tail(es))

BatchBodies ==
    {<<91>> \o JoinElements(es) \o <<93>> : es \in SeqsUpTo(BatchElements, MaxBatch)}
        \cup BatchElements \cup {<<91, 195, 93>>}

\* Allow-lists: ["*"], ["m"], ["m", "rpc.x"], []
AllowLists == {<<StrStar>>, <<<<109>>>>, <<<<109>>, <<114, 112, 99, 46, 120>>>>, <<>>}

BatchInit ==
    /\ \E allowed \in AllowLists, body \in BatchBodies :
           hist = [handler |-> HttpHandlerNew(allowed), body |-> body,
                   called |-> FALSE, ret |-> McpOk(<<>>)]
    /\ utf8 = Unused /\ fsm = Unused /\ ring = Unused /\ bscan = Unused
    /\ ctx = Unused /\ host = Unused /\ LayersUnused

BatchCall ==
    /\ ~hist.called
    /\ hist' = [hist EXCEPT !.called = TRUE,
                            !.ret = validate_batch(hist.handler, hist.body)]
    /\ UNCHANGED <<utf8, fsm, ring, bscan, ctx, host, layerVars>>

BatchNext == BatchCall

SpecBatch == BatchInit /\ [][BatchNext]_vars

(***************************************************************************)
(* Claims on the HTTP handler                                              *)
(***************************************************************************)
\* An element of a batch that deserializes to a request of version 2.0 with
\* a method that is not empty, not reserved and permitted by the allow-list
ElementAccepted(val, allowed) ==
    /\ JsonRpcRequestFromValue(val).some
    /\ JsonRpcRequestFromValue(val).val.jsonrpc = StrTwoZero
    /\ JsonRpcRequestFromValue(val).val.method # <<>>
    /\ ~OccursAt(StrRpcDot, JsonRpcRequestFromValue(val).val.method, 1)
    /\ \E i \in 1..Len(allowed) :
           allowed[i] \in {StrStar, JsonRpcRequestFromValue(val).val.method}

StrUsage == <<117, 115, 97, 103, 101>>

StrModel == <<109, 111, 100, 101, 108>>

StrPromptTokens == <<112, 114, 111, 109, 112, 116, 95, 116, 111, 107, 101, 110, 115>>

StrCompletionTokens == <<99, 111, 109, 112, 108, 101, 116, 105, 111, 110, 95, 116, 111, 107, 101, 110, 115>>

StrTotalTokens == <<116, 111, 116, 97, 108, 95, 116, 111, 107, 101, 110, 115>>

StrInputTokens == <<105, 110, 112, 117, 116, 95, 116, 111, 107, 101, 110, 115>>

StrOutputTokens == <<111, 117, 116, 112, 117, 116, 95, 116, 111, 107, 101, 110, 115>>

\* The keys of TokenCounter::new's pricing map: "gpt-4", "gpt-4-turbo",
\* "gpt-3.5-turbo", "claude-3-opus", "claude-3-sonnet"
PricingKeys ==
    {<<103, 112, 116, 45, 52>>,
     <<103, 112, 116, 45, 52, 45, 116, 117, 114, 98, 111>>,
     <<103, 112, 116, 45, 51, 46, 53, 45, 116, 117, 114, 98, 111>>,
     <<99, 108, 97, 117, 100, 101, 45, 51, 45, 111, 112, 117, 115>>,
     <<99, 108, 97, 117, 100, 101, 45, 51, 45, 115, 111, 110, 110, 101, 116>>}

\* The value of a run of decimal digits
RECURSIVE DecimalValue(_, _)
DecimalValue(digits, acc) ==
    IF digits = <<>> THEN acc
    ELSE DecimalValue(Tail(digits), Min(acc * 10 + (Head(digits) - 48), U32Modulus))

AllDigits(s) == s # <<>> /\ \A i \in 1..Len(s) : s[i] \in 48..57

DeFail == [ok |-> FALSE, val |-> None]

DeOk(opt) == [ok |-> TRUE, val |-> opt]

\* Field number idx (named names[idx]) of a derived struct with Option
\* fields, read from a JSON object (unknown keys skipped, a repeated key
\* refused) or from an array of all the fields: the value if present and
\* not null
StructField(val, names, idx) ==
    IF val.t = "obj"
    THEN IF Len(MembersNamed(val.v, names[idx])) > 1 THEN DeFail
         ELSE DeOk(OptionValue([i \in 1..Len(MembersNamed(val.v, names[idx]))
                                   |-> MembersNamed(val.v, names[idx])[i][2]]))
    ELSE IF val.t = "arr" /\ Len(val.v) = Len(names)
    THEN DeOk(OptionValue(<<val.v[idx]>>))
    ELSE DeFail

\* Option<u32> from a field: a JSON integer without sign, fraction or
\* exponent that fits the counter
OptionU32(f) ==
    IF ~f.ok THEN DeFail
    ELSE IF ~f.val.some THEN DeOk(None)
    ELSE IF f.val.val.t = "num" /\ AllDigits(f.val.val.v)
               /\ DecimalValue(f.val.val.v, 0) <= U32Max
    THEN DeOk(Some(DecimalValue(f.val.val.v, 0)))
    ELSE DeFail

\* Option<String> from a field
OptionString(f) ==
    IF ~f.ok THEN DeFail
    ELSE IF ~f.val.some THEN DeOk(None)
    ELSE IF f.val.val.t = "str" THEN DeOk(Some(f.val.val.v))
    ELSE DeFail

\* A usage struct of Option<u32> fields named `names`: the field values in
\* order, if every field deserializes
UsageStruct(val, names) ==
    IF \A i \in 1..Len(names) : OptionU32(StructField(val, names, i)).ok
    THEN DeOk(Some([i \in 1..Len(names) |->
                        OptionU32(StructField(val, names, i)).val]))
    ELSE DeFail

\* Option<usage struct> from the usage field of a response
OptionUsage(f, names) ==
    IF ~f.ok THEN DeFail
    ELSE IF ~f.val.some THEN DeOk(None)
    ELSE UsageStruct(f.val.val, names)

\* serde_json::from_str of a response struct {usage, model} whose usage has
\* the fields `names`: usage and model if the text deserializes
ResponseFromStr(text, names) ==
    IF /\ JsonFromStr(text).ok
       /\ OptionUsage(StructField(JsonFromStr(text).val, <<StrUsage, StrModel>>, 1),
                      names).ok
       /\ OptionString(StructField(JsonFromStr(text).val, <<StrUsage, StrModel>>, 2)).ok
    THEN Some([usage |-> OptionUsage(StructField(JsonFromStr(text).val,
                                                 <<StrUsage, StrModel>>, 1),
                                     names).val,
               model |-> OptionString(StructField(JsonFromStr(text).val,
                                                  <<StrUsage, StrModel>>, 2)).val])
    ELSE None

unwrap_or(opt, default) == IF opt.some THEN opt.val ELSE default

\* TokenUsage::new
TokenUsageNew ==
    [prompt_tokens |-> 0, completion_tokens |-> 0, total_tokens |-> 0,
     estimated_cost_usd |-> None, model |-> None]

\* TokenUsage::calculate_total.  The u32 sum overflows into a panic with
\* overflow checks and wraps without.
calculate_total(self, overflow_checks) ==
    IF self.total_tokens # 0 THEN [panic |-> FALSE, self |-> self]
    ELSE IF self.prompt_tokens + self.completion_tokens >= U32Modulus
            /\ overflow_checks
    THEN [panic |-> TRUE, self |-> self]
    ELSE [panic |-> FALSE,
          self |-> [self EXCEPT !.total_tokens =
                        (self.prompt_tokens + self.completion_tokens) % U32Modulus]]

\* TokenCounter::calculate_cost: the pricing keys the lookup may land on (the
\* map is searched in no fixed order) stand for the cost; None without one
calculate_cost(model, usage) ==
    IF \E k \in PricingKeys : Contains(model, k)
    THEN Some([keys |-> {k \in PricingKeys : Contains(model, k)},
               prompt_tokens |-> usage.prompt_tokens,
               completion_tokens |-> usage.completion_tokens])
    ELSE None

ExtractNone == [kind |-> "None", usage |-> TokenUsageNew]

ExtractSome(usage) == [kind |-> "Some", usage |-> usage]

ExtractPanic == [kind |-> "Panic", usage |-> TokenUsageNew]

\* The end of both extract functions: the usage after calculate_total gave
\* t, with the cost when the model is known
ExtractTotalled(t, model) ==
    IF t.panic THEN ExtractPanic
    ELSE IF model.some
    THEN ExtractSome([t.self EXCEPT !.estimated_cost_usd =
                          calculate_cost(model.val, t.self)])
    ELSE ExtractSome(t.self)

\* TokenCounter::extract_openai_format on the deserialized response r
ExtractOpenaiFrom(r, overflow_checks) ==
    IF ~r.some THEN ExtractNone
    ELSE IF ~r.val.usage.some THEN ExtractNone
    ELSE ExtractTotalled(
             calculate_total(
                 [prompt_tokens |-> unwrap_or(r.val.usage.val[1], 0),
                  completion_tokens |-> unwrap_or(r.val.usage.val[2], 0),
                  total_tokens |-> unwrap_or(r.val.usage.val[3], 0),
                  estimated_cost_usd |-> None,
                  model |-> r.val.model],
                 overflow_checks),
             r.val.model)

extract_openai_format(text, overflow_checks) ==
    ExtractOpenaiFrom(
        ResponseFromStr(text, <<StrPromptTokens, StrCompletionTokens, StrTotalTokens>>),
        overflow_checks)

\* TokenCounter::extract_anthropic_format on the deserialized response r
ExtractAnthropicFrom(r, overflow_checks) ==
    IF ~r.some THEN ExtractNone
    ELSE IF ~r.val.usage.some THEN ExtractNone
    ELSE ExtractTotalled(
             calculate_total(
                 [prompt_tokens |-> unwrap_or(r.val.usage.val[1], 0),
                  completion_tokens |-> unwrap_or(r.val.usage.val[2], 0),
                  total_tokens |-> 0,
                  estimated_cost_usd |-> None,
                  model |-> r.val.model],
                 overflow_checks),
             r.val.model)

extract_anthropic_format(text, overflow_checks) ==
    ExtractAnthropicFrom(ResponseFromStr(text, <<StrInputTokens, StrOutputTokens>>),
                         overflow_checks)

\* extract_from_body once the OpenAI attempt gave o
ExtractBodyAfterOpenai(o, body, overflow_checks) ==
    IF o.kind # "None" THEN o ELSE extract_anthropic_format(body, overflow_checks)

\* TokenCounter::extract_from_body
extract_from_body(body, overflow_checks) ==
    IF ~from_utf8_is_ok(body) THEN ExtractNone
    ELSE ExtractBodyAfterOpenai(extract_openai_format(body, overflow_checks),
                                body, overflow_checks)

StrUsagePrompt == <<120, 45, 117, 115, 97, 103, 101, 45, 112, 114, 111, 109, 112, 116, 45, 116, 111, 107, 101, 110, 115>>

StrUsageCompletion == <<120, 45, 117, 115, 97, 103, 101, 45, 99, 111, 109, 112, 108, 101, 116, 105, 111, 110, 45, 116, 111, 107, 101, 110, 115>>

StrUsageTotal == <<120, 45, 117, 115, 97, 103, 101, 45, 116, 111, 116, 97, 108, 45, 116, 111, 107, 101, 110, 115>>

\* str::parse::<u32>: an optional '+' and at least one digit, within range
ParseU32(value) ==
    IF value # <<>> /\ value[1] = 43
    THEN IF AllDigits(Tail(value)) /\ DecimalValue(Tail(value), 0) <= U32Max
         THEN Some(DecimalValue(Tail(value), 0)) ELSE None
    ELSE IF AllDigits(value) /\ DecimalValue(value, 0) <= U32Max
    THEN Some(DecimalValue(value, 0)) ELSE None

\* One of the three tests of the loop of extract_from_headers: acc is
\* [usage, found]
HeaderField(acc, name_lower, value, key, field) ==
    IF Contains(name_lower, key) /\ ParseU32(value).some
    THEN [usage |-> [acc.usage EXCEPT ![field] = ParseU32(value).val],
          found |-> TRUE]
    ELSE acc

\* The body of the loop for one header
HeaderUsage(acc, name_lower, value) ==
    HeaderField(
        HeaderField(
            HeaderField(acc, name_lower, value, StrUsagePrompt, "prompt_tokens"),
            name_lower, value, StrUsageCompletion, "completion_tokens"),
        name_lower, value, StrUsageTotal, "total_tokens")

RECURSIVE HeadersUsageFrom(_, _, _)
HeadersUsageFrom(acc, headers, i) ==
    IF i > Len(headers) THEN acc
    ELSE HeadersUsageFrom(
             HeaderUsage(acc, LowerSeq(headers[i][1]), headers[i][2]),
             headers, i + 1)

\* extract_from_headers once the loop ended with acc
ExtractHeadersFound(acc, overflow_checks) ==
    IF ~acc.found THEN ExtractNone
    ELSE IF calculate_total(acc.usage, overflow_checks).panic THEN ExtractPanic
    ELSE ExtractSome(calculate_total(acc.usage, overflow_checks).self)

\* TokenCounter::extract_from_headers
extract_from_headers(headers, overflow_checks) ==
    ExtractHeadersFound(
        HeadersUsageFrom([usage |-> TokenUsageNew, found |-> FALSE], headers, 1),
        overflow_checks)

(***************************************************************************)
(* SpecTokens: a TokenCounter extracting the usage from a response body or *)
(* from response headers, and calculate_total applied again to the usage   *)
(* it returned.  hist holds the input, the answer and the number of        *)
(* further normalizations.                                                 *)
(***************************************************************************)
MaxNormalize == 2  \* further calculate_total calls on an extracted usage

\* Token counts reported by a response
TokenValues == {0, 1, 2, U32Max}

\* Decimal digits of a number
RECURSIVE DecimalDigits(_)
DecimalDigits(n) ==
    IF n < 10 THEN <<48 + n>> ELSE DecimalDigits(n \div 10) \o <<48 + (n % 10)>>

\* "m"
ModelNames == {<<109>>, <<103, 112, 116, 45, 52, 45, 116, 117, 114, 98, 111>>}

\* {"usage":{"input_tokens":a,"output_tokens":b},"model":"m"}
AnthropicBody(a, b, m) ==
    <<123, 34, 117, 115, 97, 103, 101, 34, 58, 123, 34, 105, 110, 112, 117, 116, 95, 116, 111, 107, 101, 110, 115, 34, 58>>
        \o DecimalDigits(a) \o <<44, 34, 111, 117, 116, 112, 117, 116, 95, 116, 111, 107, 101, 110, 115, 34, 58>>
        \o DecimalDigits(b) \o <<125, 44, 34, 109, 111, 100, 101, 108, 34, 58, 34>> \o m \o <<34, 125>>

\* {"usage":{"prompt_tokens":p,"completion_tokens":c,"total_tokens":t}}
OpenaiBody(p, c, t) ==
    <<123, 34, 117, 115, 97, 103, 101, 34, 58, 123, 34, 112, 114, 111, 109, 112, 116, 95, 116, 111, 107, 101, 110, 115, 34, 58>>
        \o DecimalDigits(p) \o <<44, 34, 99, 111, 109, 112, 108, 101, 116, 105, 111, 110, 95, 116, 111, 107, 101, 110, 115, 34, 58>>
        \o DecimalDigits(c) \o <<44, 34, 116, 111, 116, 97, 108, 95, 116, 111, 107, 101, 110, 115, 34, 58>>
        \o DecimalDigits(t) \o <<125, 125>>

\* {"usage":{"prompt_tokens":p,"completion_tokens":c}}
OpenaiBodyNoTotal(p, c) ==
    <<123, 34, 117, 115, 97, 103, 101, 34, 58, 123, 34, 112, 114, 111, 109, 112, 116, 95, 116, 111, 107, 101, 110, 115, 34, 58>>
        \o DecimalDigits(p) \o <<44, 34, 99, 111, 109, 112, 108, 101, 116, 105, 111, 110, 95, 116, 111, 107, 101, 110, 115, 34, 58>>
        \o DecimalDigits(c) \o <<125, 125>>

\* X-Usage-Prompt-Tokens: p, x-usage-completion-tokens: c and, with
\* with_total, x-usage-total-tokens: t
UsageHeaders(p, c, t, with_total) ==
    <<<<<<88, 45, 85, 115, 97, 103, 101, 45, 80, 114, 111, 109, 112, 116, 45, 84, 111, 107, 101, 110, 115>>, DecimalDigits(p)>>,
      <<StrUsageCompletion, DecimalDigits(c)>>>>
        \o IF with_total THEN <<<<StrUsageTotal, DecimalDigits(t)>>>> ELSE <<>>

\* The inputs: what the response reports (shape and numbers) and the bytes
\* or headers that carry it
TokenInputs ==
    {[shape |-> "anthropic", a |-> a, b |-> b, t |-> 0,
      body |-> AnthropicBody(a, b, m), headers |-> <<>>] :
         a \in TokenValues, b \in TokenValues, m \in ModelNames}
    \cup {[shape |-> "openai", a |-> a, b |-> b, t |-> t,
           body |-> OpenaiBody(a, b, t), headers |-> <<>>] :
              a \in TokenValues, b \in TokenValues, t \in TokenValues}
    \cup {[shape |-> "openai", a |-> a, b |-> b, t |-> 0,
           body |-> OpenaiBodyNoTotal(a, b), headers |-> <<>>] :
              a \in TokenValues, b \in TokenValues}
    \cup {[shape |-> "headers", a |-> a, b |-> b, t |-> t,
           body |-> <<>>, headers |-> UsageHeaders(a, b, t, w)] :
              a \in TokenValues, b \in TokenValues, t \in {0, 2}, w \in BOOLEAN}
    \cup {[shape |-> "other", a |-> 0, b |-> 0, t |-> 0,
           body |-> body, headers |-> <<>>] :
              body \in {<<123, 34, 101, 114, 114, 111, 114, 34, 58, 34, 120, 34, 125>>, <<123, 34, 117, 115, 97, 103, 101, 34, 58, 123, 34, 105, 110, 112, 117, 116, 95, 116, 111, 107, 101, 110, 115, 34, 58, 45, 49, 125, 125>>,
                        <<123, 34, 117, 115, 97, 103, 101, 34, 58, 110, 117, 108, 108, 125>>, <<195>>}}

TokensInit ==
    /\ \E input \in TokenInputs, oc \in BOOLEAN :
           hist = [overflow_checks |-> oc, input |-> input, called |-> FALSE,
                   ret |-> ExtractNone, first |-> TokenUsageNew, again |-> 0,
                   aborted |-> FALSE]
    /\ utf8 = Unused /\ fsm = Unused /\ ring = Unused /\ bscan = Unused
    /\ ctx = Unused /\ host = Unused /\ LayersUnused

\* extract_from_body on the response body
TokensExtractBody ==
    /\ ~hist.called /\ hist.input.shape # "headers"
    /\ \E r \in {extract_from_body(hist.input.body, hist.overflow_checks)} :
           hist' = [hist EXCEPT !.called = TRUE, !.ret = r, !.first = r.usage,
                                !.aborted = (r.kind = "Panic")]
    /\ UNCHANGED <<utf8, fsm, ring, bscan, ctx, host, layerVars>>

\* extract_from_headers on the response headers
TokensExtractHeaders ==
    /\ ~hist.called /\ hist.input.shape = "headers"
    /\ \E r \in {extract_from_headers(hist.input.headers, hist.overflow_checks)} :
           hist' = [hist EXCEPT !.called = TRUE, !.ret = r, !.first = r.usage,
                                !.aborted = (r.kind = "Panic")]
    /\ UNCHANGED <<utf8, fsm, ring, bscan, ctx, host, layerVars>>

\* calculate_total on the usage that was returned
TokensNormalize ==
    /\ hist.called /\ hist.ret.kind = "Some" /\ ~hist.aborted
    /\ hist.again < MaxNormalize
    /\ \E t \in {calculate_total(hist.ret.usage, hist.overflow_checks)} :
           hist' = [hist EXCEPT !.ret.usage = t.self, !.again = @ + 1,
                                !.aborted = t.panic]
    /\ UNCHANGED <<utf8, fsm, ring, bscan, ctx, host, layerVars>>

TokensNext == TokensExtractBody \/ TokensExtractHeaders \/ TokensNormalize

SpecTokens == TokensInit /\ [][TokensNext]_vars

(***************************************************************************)
(* Claims on the token counter                                             *)
(***************************************************************************)
\* C24: from a body of the Anthropic shape with input_tokens a and
\* output_tokens b, extract_from_body returns a usage with prompt_tokens a,
\* completion_tokens b and total_tokens a + b.
C24_AnthropicShape ==
    (hist.called /\ hist.input.shape = "anthropic") =>
        /\ hist.ret.kind = "Some"
        /\ hist.first.prompt_tokens = hist.input.a
        /\ hist.first.completion_tokens = hist.input.b
        /\ hist.first.total_tokens = hist.input.a + hist.input.b

\* C25: every usage extracted from a body or from headers has
\* total_tokens = prompt_tokens + completion_tokens, and a further
\* calculate_total leaves it as it was.
C25_IdempotentNormalization ==
    (hist.called /\ hist.ret.kind = "Some") =>
        /\ hist.ret.usage.total_tokens
               = hist.ret.usage.prompt_tokens + hist.ret.usage.completion_tokens
        /\ ~hist.aborted
        /\ hist.ret.usage = hist.first

(***************************************************************************)
(* lib.rs: the root context and the configuration                          *)
(***************************************************************************)
StrBlockedPatterns == <<98, 108, 111, 99, 107, 101, 100, 95, 112, 97, 116, 116, 101, 114, 110, 115>>

StrMaxBodySize == <<109, 97, 120, 95, 98, 111, 100, 121, 95, 115, 105, 122, 101>>

StrLogMatches == <<108, 111, 103, 95, 109, 97, 116, 99, 104, 101, 115>>

\* usize is scaled to the naturals below UsizeModulus
UsizeModulus == 64

\* max_body_size of FilterConfig::default
DefaultMaxBodySize == 10 * 1024 * 1024

\* FilterConfig::default of lib.rs
FilterConfigDefault ==
    [blocked_patterns |->
         <<<<105, 103, 110, 111, 114, 101, 32, 112, 114, 101, 118, 105, 111, 117, 115, 32, 105, 110, 115, 116, 114, 117, 99, 116, 105, 111, 110, 115>>,
           <<105, 103, 110, 111, 114, 101, 32, 97, 108, 108, 32, 112, 114, 101, 118, 105, 111, 117, 115>>,
           <<100, 105, 115, 114, 101, 103, 97, 114, 100, 32, 112, 114, 101, 118, 105, 111, 117, 115>>,
           <<102, 111, 114, 103, 101, 116, 32, 121, 111, 117, 114, 32, 105, 110, 115, 116, 114, 117, 99, 116, 105, 111, 110, 115>>,
           <<111, 118, 101, 114, 114, 105, 100, 101, 32, 121, 111, 117, 114, 32, 105, 110, 115, 116, 114, 117, 99, 116, 105, 111, 110, 115>>,
           <<105, 103, 110, 111, 114, 101, 32, 121, 111, 117, 114, 32, 115, 121, 115, 116, 101, 109, 32, 112, 114, 111, 109, 112, 116>>,
           <<98, 121, 112, 97, 115, 115, 32, 121, 111, 117, 114, 32, 114, 101, 115, 116, 114, 105, 99, 116, 105, 111, 110, 115>>,
           <<106, 97, 105, 108, 98, 114, 101, 97, 107>>,
           <<68, 65, 78, 32, 109, 111, 100, 101>>>>,
     max_body_size |-> DefaultMaxBodySize,
     log_matches |-> TRUE]

\* GuardrailRootContext::new, with the thread-local CONFIG as initialised
RootNew == [config |-> FilterConfigDefault, CONFIG |-> FilterConfigDefault]

\* serde_json::Value::get(key): the last member of that name of an object
ValueGet(val, key) ==
    IF val.t = "obj" /\ MembersNamed(val.v, key) # <<>>
    THEN Some(MembersNamed(val.v, key)[Len(MembersNamed(val.v, key))][2])
    ELSE None

\* arr.iter().filter_map(|v| v.as_str().map(String::from)).collect()
RECURSIVE StringsOf(_)
StringsOf(arr) ==
    IF arr = <<>> THEN <<>>
    ELSE IF Head(arr).t = "str" THEN <<Head(arr).v>> \o StringsOf(Tail(arr))
    ELSE StringsOf(Tail(arr))

\* Value::as_u64 followed by `as usize`
AsUsize(v) ==
    IF v.t = "num" /\ AllDigits(v.v)
    THEN Some(DecimalValue(v.v, 0) % UsizeModulus) ELSE None

\* The three extractions of on_configure from the parsed blob
ConfigFromJson(config, json) ==
    [blocked_patterns |->
         IF ValueGet(json, StrBlockedPatterns).some
               /\ ValueGet(json, StrBlockedPatterns).val.t = "arr"
         THEN StringsOf(ValueGet(json, StrBlockedPatterns).val.v)
         ELSE config.blocked_patterns,
     max_body_size |->
         IF ValueGet(json, StrMaxBodySize).some
               /\ AsUsize(ValueGet(json, StrMaxBodySize).val).some
         THEN AsUsize(ValueGet(json, StrMaxBodySize).val).val
         ELSE config.max_body_size,
     log_matches |->
         IF ValueGet(json, StrLogMatches).some
               /\ ValueGet(json, StrLogMatches).val.t = "lit"
               /\ ValueGet(json, StrLogMatches).val.v \in {JsonLitTrue, JsonLitFalse}
         THEN ValueGet(json, StrLogMatches).val.v = JsonLitTrue
         ELSE config.log_matches]

\* The configuration on_configure arrives at for the blob (None: the host
\* has no plugin configuration)
ConfigLoaded(config, blob) ==
    IF ~blob.some THEN config
    ELSE IF ~from_utf8_is_ok(blob.val) THEN config
    ELSE IF ~JsonFromStr(blob.val).ok THEN config
    ELSE ConfigFromJson(config, JsonFromStr(blob.val).val)

\* on_configure that builds the configuration from nothing
on_configure_from_empty(self, blob) ==
    [self |-> [config |-> ConfigLoaded([FilterConfigDefault EXCEPT
                                            !.blocked_patterns = <<>>], blob),
               CONFIG |-> ConfigLoaded([FilterConfigDefault EXCEPT
                                            !.blocked_patterns = <<>>], blob)],
     ret |-> TRUE]

\* GuardrailRootContext::on_configure
on_configure(self, blob) ==
    [self |-> [config |-> ConfigLoaded(self.config, blob),
               CONFIG |-> ConfigLoaded(self.config, blob)],
     ret |-> TRUE]

\* create_http_context that gives every request the all-defaults
\* configuration
create_http_context_defaults(self) == HttpContextNew(FilterConfigDefault)

\* GuardrailRootContext::create_http_context
create_http_context(self) == HttpContextNew(self.CONFIG)

(***************************************************************************)
(* SpecRoot: a root context configured once at worker startup, and the     *)
(* request contexts it creates.  hist holds the blob, on_configure's       *)
(* answer and the number of contexts created; ctx is the last one, and    *)
(* hist.fresh tells that it was created after the last on_configure.       *)
(***************************************************************************)
MaxContexts == 3   \* request contexts created

PatternsParts ==
    {<<>>, <<34, 98, 108, 111, 99, 107, 101, 100, 95, 112, 97, 116, 116, 101, 114, 110, 115, 34, 58, 91, 34, 120, 34, 93>>,
     <<34, 98, 108, 111, 99, 107, 101, 100, 95, 112, 97, 116, 116, 101, 114, 110, 115, 34, 58, 91, 34, 120, 34, 44, 49, 93>>,
     <<34, 98, 108, 111, 99, 107, 101, 100, 95, 112, 97, 116, 116, 101, 114, 110, 115, 34, 58, 34, 120, 34>>}

MaxSizeParts ==
    {<<>>, <<34, 109, 97, 120, 95, 98, 111, 100, 121, 95, 115, 105, 122, 101, 34, 58, 53>>, <<34, 109, 97, 120, 95, 98, 111, 100, 121, 95, 115, 105, 122, 101, 34, 58, 45, 49>>,
     <<34, 109, 97, 120, 95, 98, 111, 100, 121, 95, 115, 105, 122, 101, 34, 58, 55, 48>>}

LogParts == {<<>>, <<34, 108, 111, 103, 95, 109, 97, 116, 99, 104, 101, 115, 34, 58, 102, 97, 108, 115, 101>>}

\* The parts of an object joined by commas
RECURSIVE JoinParts(_)
JoinParts(parts) ==
    IF parts = <<>> THEN <<>>
    ELSE IF Head(parts) = <<>> THEN JoinParts(Tail(parts))
    ELSE IF JoinParts(Tail(parts)) = <<>> THEN Head(parts)
    ELSE Head(parts) \o <<44>> \o JoinParts(Tail(parts))

\* Configuration blobs: none, not UTF-8, not JSON ("x", "{"), an array, and
\* objects with any of the three fields, well typed or not
ConfigBlobs ==
    {None, Some(<<195>>), Some(<<120>>), Some(<<123>>), Some(<<91, 49, 93>>)}
        \cup {Some(<<123>> \o JoinParts(<<p, m, l>>) \o <<125>>) :
                  p \in PatternsParts, m \in MaxSizeParts, l \in LogParts}

RootInit ==
    /\ root = RootNew
    /\ \E blob \in ConfigBlobs :
           hist = [blob |-> blob, configured |-> FALSE, ret |-> FALSE,
                   contexts |-> 0, fresh |-> FALSE]
    /\ ctx = Unused
    /\ utf8 = Unused /\ fsm = Unused /\ ring = Unused /\ bscan = Unused
    /\ host = Unused /\ limiter = Unused /\ ws = Unused /\ sse = Unused

RootConfigure ==
    /\ ~hist.configured
    /\ \E r \in {on_configure(root, hist.blob)} :
           /\ root' = r.self
           /\ hist' = [hist EXCEPT !.configured = TRUE, !.ret = r.ret,
                                !.fresh = FALSE]
    /\ UNCHANGED <<utf8, fsm, ring, bscan, ctx, host, limiter, ws, sse>>

RootCreateContext ==
    /\ hist.contexts < MaxContexts
    /\ ctx' = create_http_context(root)
    /\ hist' = [hist EXCEPT !.contexts = @ + 1, !.fresh = TRUE]
    /\ UNCHANGED <<utf8, fsm, ring, bscan, host, limiter, ws, sse, root>>

RootNext == RootConfigure \/ RootCreateContext

SpecRoot == RootInit /\ [][RootNext]_vars

(***************************************************************************)
(* Claims on the configuration                                             *)
(***************************************************************************)
\* The blob is text that parses as JSON
BlobParses(blob) ==
    blob.some /\ from_utf8_is_ok(blob.val) /\ JsonFromStr(blob.val).ok

\* The blob is a JSON document without a member called name
Omits(blob, name) ==
    \/ JsonFromStr(blob.val).val.t # "obj"
    \/ MembersNamed(JsonFromStr(blob.val).val.v, name) = <<>>

AnyPatternLists == {<<>>, <<<<>>>>, <<<<97, 98>>>>}

AnyRingSizes == {0, RingCapacity}

AnyMaxSizes == {0, MaxLen}

BodyAnyInit ==
    /\ hist = <<>>
    /\ \E l \in AnyPatternLists, c \in AnyRingSizes, m \in AnyMaxSizes :
           bscan = BodyWithPatterns(l, c, m)
    /\ utf8 = Unused /\ fsm = Unused /\ ring = Unused
    /\ ctx = Unused /\ host = Unused
    /\ LayersUnused

BodyAnyCall(chunk, end_of_stream) ==
    /\ \A k \in 1..Len(hist) : hist[k].ret.kind # "Panic"
    /\ \E r \in {on_body_chunk(bscan, chunk, end_of_stream)} :
           /\ bscan' = r.self
           /\ hist' = Append(hist, [chunk |-> chunk, eos |-> end_of_stream,
                                    ret |-> r.ret])
    /\ UNCHANGED <<utf8, fsm, ring, ctx, host, layerVars>>

BodyAnyNext ==
    \E chunk \in Chunks(BodyAlphabet), eos \in BOOLEAN :
        BodyAnyCall(chunk, eos)

SpecBodyAny == BodyAnyInit /\ [][BodyAnyNext]_vars

\* C27: every on_body_chunk call, whatever the configuration and the
\* chunks, returns a ScanDecision; none panics.
C27_NoPanicInBodyPath ==
    \A k \in 1..Len(hist) :
        hist[k].ret.kind \in {"Continue", "Allow", "Block", "Skip"}

(***************************************************************************)
(* governance/pii_redaction.rs: PiiRedactor.  Texts are ASCII, so a char   *)
(* index and a byte index are the same number; indices are 0-based as in   *)
(* the source and Drop(text, i) is &text[i..].                             *)
(***************************************************************************)
is_ascii_digit(b) == b \in 48..57

\* char::is_whitespace on ASCII
is_whitespace(b) == b \in {9, 10, 11, 12, 13, 32}

PiiMatch(pii_type, start, end, value_hint) ==
    [pii_type |-> pii_type, start |-> start, end |-> end,
     value_hint |-> value_hint]

PiiNone == [some |-> FALSE, end |-> 0, hint |-> <<>>]

PiiSome(end, hint) == [some |-> TRUE, end |-> end, hint |-> hint]

StrSsnMask == <<42, 42, 42, 45, 42, 42, 45>>

StrCardHint == <<42, 42, 42, 42, 45, 42, 42, 42, 42, 45, 42, 42, 42, 42, 45, 42, 42, 42, 42>>

StrPhoneHint == <<42, 42, 42, 45, 42, 42, 42, 45, 42, 42, 42, 42>>

StrEmailHint == <<91, 69, 77, 65, 73, 76, 93>>

is_ssn_pattern(bytes) ==
    IF Len(bytes) < 11 THEN FALSE
    ELSE /\ is_ascii_digit(bytes[1])
         /\ is_ascii_digit(bytes[2])
         /\ is_ascii_digit(bytes[3])
         /\ bytes[4] = 45
         /\ is_ascii_digit(bytes[5])
         /\ is_ascii_digit(bytes[6])
         /\ bytes[7] = 45
         /\ is_ascii_digit(bytes[8])
         /\ is_ascii_digit(bytes[9])
         /\ is_ascii_digit(bytes[10])
         /\ is_ascii_digit(bytes[11])

RECURSIVE ScanSsnFrom(_, _, _)
ScanSsnFrom(text, i, matches) ==
    IF ~(i + 10 < Len(text)) THEN matches
    ELSE IF is_ssn_pattern(Drop(text, i))
    THEN ScanSsnFrom(text, i + 11,
             Append(matches,
                    PiiMatch("Ssn", i, i + 11,
                             StrSsnMask \o SubSeq(text, i + 8, i + 11))))
    ELSE ScanSsnFrom(text, i + 1, matches)

scan_ssn(text) == ScanSsnFrom(text, 0, <<>>)

\* the for loop of is_credit_card_pattern: i is the index of the next char
RECURSIVE CreditCardLoop(_, _, _, _)
CreditCardLoop(chars, i, digit_count, end) ==
    IF i >= Len(chars) THEN PiiNone
    ELSE IF is_ascii_digit(chars[i + 1])
    THEN IF digit_count + 1 = 16 THEN PiiSome(i + 1, StrCardHint)
         ELSE CreditCardLoop(chars, i + 1, digit_count + 1, i + 1)
    ELSE IF chars[i + 1] = 45 \/ chars[i + 1] = 32
    THEN CreditCardLoop(chars, i + 1, digit_count, end)
    ELSE PiiNone

is_credit_card_pattern(chars) == CreditCardLoop(chars, 0, 0, 0)

\* one turn of a scan loop that found `found` at index i
RECURSIVE ScanCreditCardFrom(_, _, _)
ScanCreditCardStep(chars, i, matches, found) ==
    IF found.some
    THEN ScanCreditCardFrom(chars, i + found.end,
             Append(matches,
                    PiiMatch("CreditCard", i, i + found.end, found.hint)))
    ELSE ScanCreditCardFrom(chars, i + 1, matches)

ScanCreditCardFrom(chars, i, matches) ==
    IF ~(i < Len(chars)) THEN matches
    ELSE ScanCreditCardStep(chars, i, matches,
                            is_credit_card_pattern(Drop(chars, i)))

scan_credit_card(text) == ScanCreditCardFrom(text, 0, <<>>)

IsEmailStartStop(b) == is_whitespace(b) \/ b = 60 \/ b = 34

IsEmailEndStop(b) == is_whitespace(b) \/ b = 62 \/ b = 34

\* text[..i].rfind(..).map(|p| p + 1).unwrap_or(0)
EmailStart(text, i) ==
    IF \E p \in 0..(i - 1) : IsEmailStartStop(text[p + 1])
    THEN 1 + CHOOSE p \in 0..(i - 1) :
                 /\ IsEmailStartStop(text[p + 1])
                 /\ \A q \in (p + 1)..(i - 1) : ~IsEmailStartStop(text[q + 1])
    ELSE 0

\* text[i + 1..].find(..).map(|p| i + 1 + p).unwrap_or(text.len())
EmailEnd(text, i) ==
    IF \E p \in (i + 1)..(Len(text) - 1) : IsEmailEndStop(text[p + 1])
    THEN CHOOSE p \in (i + 1)..(Len(text) - 1) :
             /\ IsEmailEndStop(text[p + 1])
             /\ \A q \in (i + 1)..(p - 1) : ~IsEmailEndStop(text[q + 1])
    ELSE Len(text)

EmailValid(text, i, start, end) ==
    /\ i > start
    /\ end > i + 1
    /\ \E k \in (i + 2)..end : text[k] = 46

EmailAt(text, i, start, end, matches) ==
    IF EmailValid(text, i, start, end)
    THEN Append(matches, PiiMatch("Email", start, end, StrEmailHint))
    ELSE matches

RECURSIVE ScanEmailFrom(_, _, _)
ScanEmailFrom(text, i, matches) ==
    IF i >= Len(text) THEN matches
    ELSE IF text[i + 1] = 64
    THEN ScanEmailFrom(text, i + 1,
             EmailAt(text, i, EmailStart(text, i), EmailEnd(text, i), matches))
    ELSE ScanEmailFrom(text, i + 1, matches)

scan_email(text) == ScanEmailFrom(text, 0, <<>>)

IsPhoneSeparator(b) == b \in {45, 32, 40, 41, 46}

\* the for loop of is_phone_pattern, then its test of digit_count
RECURSIVE PhoneLoop(_, _, _, _)
PhoneLoop(bytes, i, digit_count, end) ==
    IF i < Len(bytes) /\ is_ascii_digit(bytes[i + 1])
    THEN PhoneLoop(bytes, i + 1, digit_count + 1, i + 1)
    ELSE IF i < Len(bytes) /\ IsPhoneSeparator(bytes[i + 1])
    THEN PhoneLoop(bytes, i + 1, digit_count,
                   IF digit_count > 0 THEN i + 1 ELSE end)
    ELSE IF digit_count >= 10 THEN PiiSome(end, StrPhoneHint)
    ELSE PiiNone

is_phone_pattern(bytes) == PhoneLoop(bytes, 0, 0, 0)

RECURSIVE ScanPhoneFrom(_, _, _)
ScanPhoneStep(bytes, i, matches, found) ==
    IF found.some
    THEN ScanPhoneFrom(bytes, i + found.end,
             Append(matches, PiiMatch("Phone", i, i + found.end, found.hint)))
    ELSE ScanPhoneFrom(bytes, i + 1, matches)

ScanPhoneFrom(bytes, i, matches) ==
    IF ~(i < Len(bytes)) THEN matches
    ELSE ScanPhoneStep(bytes, i, matches, is_phone_pattern(Drop(bytes, i)))

scan_phone(text) == ScanPhoneFrom(text, 0, <<>>)

scan(text) ==
    scan_ssn(text) \o scan_credit_card(text) \o scan_email(text)
        \o scan_phone(text)

contains_pii(text) == scan(text) # <<>>

(***************************************************************************)
(* SpecPii: one text, scanned once.  CardTexts are the texts whose only    *)
(* PII is one card number of 16 digits in four groups, each gap a hyphen   *)
(* or a space; OtherTexts are the texts of the module's own tests.         *)
(***************************************************************************)
CardGroups == {<<52, 49, 49, 49>>, <<49, 49, 49, 49>>}

CardSeparators == {<<45>>, <<32>>}

CardPrefixes == {<<>>, <<67, 97, 114, 100, 58, 32>>, <<120>>}

CardSuffixes == {<<>>, <<32, 111, 107>>}

CardNumbers ==
    {g1 \o s1 \o g2 \o s2 \o g2 \o s3 \o g2 :
         g1 \in CardGroups, g2 \in {<<49, 49, 49, 49>>},
         s1 \in CardSeparators, s2 \in CardSeparators, s3 \in CardSeparators}

CardTexts ==
    {p \o n \o s : p \in CardPrefixes, n \in CardNumbers, s \in CardSuffixes}

OtherTexts ==
    {<<77, 121, 32, 83, 83, 78, 32, 105, 115, 32, 49, 50, 51, 45, 52, 53, 45, 54, 55, 56, 57>>,
     <<67, 97, 108, 108, 32, 109, 101, 32, 97, 116, 32, 53, 53, 53, 45, 49, 50, 51, 45, 52, 53, 54, 55>>,
     <<67, 111, 110, 116, 97, 99, 116, 32, 109, 101, 32, 97, 116, 32, 117, 115, 101, 114, 64, 101, 120, 97, 109, 112, 108, 101, 46, 99, 111, 109, 32, 102, 111, 114, 32, 100, 101, 116, 97, 105, 108, 115>>,
     <<72, 101, 108, 108, 111, 44, 32, 116, 104, 105, 115, 32, 105, 115, 32, 97, 32, 110, 111, 114, 109, 97, 108, 32, 109, 101, 115, 115, 97, 103, 101>>,
     <<>>}

PiiInit ==
    /\ \E text \in CardTexts \cup OtherTexts :
           hist = [text |-> text, called |-> FALSE, ret |-> <<>>,
                   contains |-> FALSE]
    /\ utf8 = Unused /\ fsm = Unused /\ ring = Unused /\ bscan = Unused
    /\ ctx = Unused /\ host = Unused
    /\ LayersUnused

PiiScan ==
    /\ ~hist.called
    /\ hist' = [hist EXCEPT !.called = TRUE, !.ret = scan(hist.text),
                            !.contains = contains_pii(hist.text)]
    /\ UNCHANGED <<utf8, fsm, ring, bscan, ctx, host, layerVars>>

PiiNext == PiiScan

SpecPii == PiiInit /\ [][PiiNext]_vars

\* C28: scan on a text whose only PII is one card number of 16 digits
\* written with hyphen or space separators returns exactly one match, and
\* that match has type CreditCard.
C28_OneCardOneMatch ==
    (hist.called /\ hist.text \in CardTexts)
        => /\ Len(hist.ret) = 1
           /\ hist.ret[1].pii_type = "CreditCard"

(***************************************************************************)
(* SpecResume: a PatternScanner fed one byte per scan_byte call, scanning  *)
(* on after every Match.  ResumeLists adds to PatternLists the list "a",   *)
(* "bb", whose first pattern can match between two bytes of the second.    *)
(***************************************************************************)
ResumeLists == PatternLists \cup {<<<<97>>, <<98, 98>>>>}

ResumeInit ==
    /\ hist = <<>>
    /\ \E l \in ResumeLists : fsm = ScannerNew(Patterns(l))
    /\ utf8 = Unused /\ ring = Unused /\ bscan = Unused
    /\ ctx = Unused /\ host = Unused
    /\ LayersUnused

ResumeScanByte(byte) ==
    /\ Len(hist) < MaxLen
    /\ \E r \in {scan_byte(fsm, byte)} :
           /\ fsm' = r.self
           /\ hist' = Append(hist, [chunk |-> <<byte>>, ret |-> r.ret])
    /\ UNCHANGED <<utf8, ring, bscan, ctx, host, layerVars>>

ResumeNext == \E byte \in FsmAlphabet : ResumeScanByte(byte)

SpecResume == ResumeInit /\ [][ResumeNext]_vars

\* The bytes scanned so far, folded as advance folds them
ScannedLower == LowerSeq(Fed)

\* The last n scanned bytes
LastScanned(n) == SubSeq(ScannedLower, Len(Fed) - n + 1, Len(Fed))

\* Call k returned a Match whose pattern ends at byte k of the stream
RealOccurrence(k) ==
    \E p \in {fsm.patterns[hist[k].ret.pattern_index + 1].bytes} :
        /\ hist[k].ret.position = k
        /\ k >= Len(p)
        /\ SubSeq(ScannedLower, k - Len(p) + 1, k) = p

\* C29: scanning on after a Match, every later Match is a real occurrence
\* of its pattern ending at its position, and after each scan_byte call
\* every pattern's cursor c has the last c scanned bytes equal to the first
\* c bytes of the pattern.
C29_ResumedScanSound ==
    /\ \A j \in 1..Len(hist), k \in 1..Len(hist) :
           (j < k /\ hist[j].ret.kind = "Match" /\ hist[k].ret.kind = "Match")
               => RealOccurrence(k)
    /\ \A i \in 1..Len(fsm.patterns) :
           /\ fsm.states[i] <= Len(Fed)
           /\ LastScanned(fsm.states[i])
                  = Take(fsm.patterns[i].bytes, fsm.states[i])

\* C30: after every scan_byte call the cursor of each (non-empty) pattern
\* is at least 0 and below the pattern's length; a cursor that reached the
\* length was reported as a Match and reset to 0 within the call.
C30_CursorInRange ==
    \A i \in 1..Len(fsm.patterns) :
        /\ 0 <= fsm.states[i]
        /\ fsm.states[i] < Len(fsm.patterns[i].bytes)
        /\ (hist # <<>> /\ hist[Len(hist)].ret.kind = "Match"
              /\ hist[Len(hist)].ret.pattern_index = i - 1)
               => fsm.states[i] = 0

\* A call has just completed a pattern of two bytes: reported, cursor at 0
C30_Witness ==
    /\ hist # <<>>
    /\ hist[Len(hist)].ret.kind = "Match"
    /\ \E i \in 1..Len(fsm.patterns) :
           /\ hist[Len(hist)].ret.pattern_index = i - 1
           /\ Len(fsm.patterns[i].bytes) >= 2
           /\ fsm.states[i] = 0

(***************************************************************************)
(* SpecFirst: a fresh PatternScanner given one slice.  FirstLists adds to  *)
(* PatternLists the list "aab", "b", whose patterns can end on one byte.   *)
(***************************************************************************)
FirstLists == PatternLists \cup {<<<<97, 97, 98>>, <<98>>>>}

FirstInit ==
    /\ hist = <<>>
    /\ \E l \in FirstLists : fsm = ScannerNew(Patterns(l))
    /\ utf8 = Unused /\ ring = Unused /\ bscan = Unused
    /\ ctx = Unused /\ host = Unused
    /\ LayersUnused

FirstScanBytes(bytes) ==
    /\ hist = <<>>
    /\ \E r \in {scan_bytes(fsm, bytes)} :
           /\ fsm' = r.self
           /\ hist' = Append(hist, [chunk |-> bytes, ret |-> r.ret])
    /\ UNCHANGED <<utf8, ring, bscan, ctx, host, layerVars>>

FirstNext == \E bytes \in SeqsUpTo(FsmAlphabet, MaxLen) : FirstScanBytes(bytes)

SpecFirst == FirstInit /\ [][FirstNext]_vars

\* Pattern i (1-based) has an occurrence in S ending at byte e
EndsAt(S, pattern, e) ==
    /\ e >= Len(pattern.bytes)
    /\ e <= Len(S)
    /\ OccursAt(pattern.bytes, LowerSeq(S), e - Len(pattern.bytes) + 1)

\* The lowest index (1-based) of a pattern with an occurrence ending at e
LowestEndingAt(S, patterns, e) ==
    MinOf({i \in 1..Len(patterns) : EndsAt(S, patterns[i], e)})

\* What first-match-wins asks of r, the result for the slice S, when the
\* occurrences of the patterns in S end at `ends`
FirstMatchOf(r, S, patterns, ends) ==
    IF ends = {} THEN r.kind = "Continue"
    ELSE /\ r.kind = "Match"
         /\ r.position = MinOf(ends)
         /\ r.pattern_index = LowestEndingAt(S, patterns, MinOf(ends)) - 1

\* C31: over a slice given to a fresh scanner, scan_bytes reports the
\* pattern whose occurrence ends earliest, and when one byte completes
\* several patterns the one with the lowest index.
C31_FirstMatchWins ==
    hist # <<>> =>
        FirstMatchOf(hist[1].ret, hist[1].chunk, fsm.patterns,
                     Ends(hist[1].chunk, fsm.patterns))

(***************************************************************************)
(* Claims on the staging slot of the Utf8Buffer (SpecUtf8)                 *)
(***************************************************************************)
\* The k staged bytes are a lead byte and k - 1 continuation bytes, of a
\* sequence longer than k
StagedPrefix(self, k) ==
    /\ ~is_continuation(self.leftover[1])
    /\ \A i \in 2..k : is_continuation(self.leftover[i])
    /\ sequence_length(self.leftover[1]) > k

\* C32: after every process_chunk call the staged length is in 0..3, and
\* when it is k > 0 the staged bytes are one lead byte followed by k - 1
\* continuation bytes with sequence_length(lead) > k.
C32_StagingSlot ==
    /\ utf8.leftover_len \in 0..3
    /\ utf8.leftover_len > 0 => StagedPrefix(utf8, utf8.leftover_len)

\* A call has staged three bytes of a four-byte sequence, after a call
\* that staged one byte
C32_Witness ==
    /\ Len(hist) = 2
    /\ hist[1].chunk = <<195>>
    /\ utf8.leftover_len = 3
    /\ utf8.leftover[1] = 240

(***************************************************************************)
(* streaming/ring_buffer.rs: recent_bytes                                  *)
(***************************************************************************)
Reverse(s) == [i \in 1..Len(s) |-> s[Len(s) - i + 1]]

\* The index read by round i (0-based) of the loop of recent_bytes
RecentPos(self, i) ==
    IF self.write_pos >= i + 1 THEN self.write_pos - i - 1
    ELSE self.capacity - (i + 1 - self.write_pos)

\* The vector pushed by the loop of recent_bytes, before result.reverse()
RecentPushed(self, count) ==
    [j \in 1..count |-> self.buffer[RecentPos(self, j - 1) + 1]]

\* recent_bytes without its result.reverse()
recent_bytes_unreversed(self, count) ==
    RecentPushed(self, Min(Min(count, self.capacity), self.total_written))

\* RingBuffer::recent_bytes
recent_bytes(self, count) ==
    Reverse(RecentPushed(self,
                         Min(Min(count, self.capacity), self.total_written)))

(***************************************************************************)
(* SpecRingLog: a RingBuffer of capacity 1, 2 or RingCapacity fed chunks   *)
(* and reset.  Each entry of hist holds, besides the call, the bytes       *)
(* handed to write_and_scan since construction or the last reset, taken    *)
(* from the Utf8Buffer's output and the growth of total_written.           *)
(***************************************************************************)
LogAlphabet == {97, 98, 195, 159}

LogCapacities == {1, 2, RingCapacity}

\* The configured patterns "Ab" and "B"
LogPatterns == <<<<65, 98>>, <<66>>>>

\* The bytes written so far (since construction or the last reset)
Written == IF hist = <<>> THEN <<>> ELSE Last(hist).written

\* The first n of the bytes that process_chunk hands to write_and_scan when
\* utf8_handler.process_chunk returns u
HandedToWrite(u, n) == Take(u.ret.prefix.val \o u.ret.main, n)

RingLogInit ==
    /\ hist = <<>>
    /\ \E c \in LogCapacities : ring = RingNew(c, Patterns(LogPatterns))
    /\ utf8 = Unused /\ fsm = Unused /\ bscan = Unused
    /\ ctx = Unused /\ host = Unused
    /\ LayersUnused

RingLogCall(chunk) ==
    /\ \E r \in {RingProcessChunk(ring, chunk)} :
           /\ ring' = r.self
           /\ hist' = Append(hist,
                  [chunk |-> chunk, ret |-> r.ret, op |-> "process_chunk",
                   written |-> Written \o
                       HandedToWrite(Utf8ProcessChunk(ring.utf8_handler, chunk),
                                     r.self.total_written - ring.total_written)])
    /\ UNCHANGED <<utf8, fsm, bscan, ctx, host, layerVars>>

RingLogReset ==
    /\ hist # <<>>
    /\ Last(hist).op # "reset"
    /\ Len(hist) < MaxCalls
    /\ ring' = RingReset(ring)
    /\ hist' = Append(hist, [chunk |-> <<>>, ret |-> Continue, op |-> "reset",
                             written |-> <<>>])
    /\ UNCHANGED <<utf8, fsm, bscan, ctx, host, layerVars>>

RingLogNext ==
    \/ \E chunk \in Chunks(LogAlphabet) : RingLogCall(chunk)
    \/ RingLogReset

SpecRingLog == RingLogInit /\ [][RingLogNext]_vars

\* C33: in every reachable RingBuffer state (capacity > 0) the buffer's
\* length is the capacity, write_pos = total_written mod capacity and
\* total_written = the scanner's bytes_scanned; after a process_chunk call
\* that returned Match at position p, total_written = p.
C33_RingAccounting ==
    /\ Len(ring.buffer) = ring.capacity
    /\ ring.write_pos = ring.total_written % ring.capacity
    /\ ring.total_written = ring.scanner.bytes_scanned
    /\ (hist # <<>> /\ Last(hist).ret.kind = "Match")
           => ring.total_written = Last(hist).ret.position

\* A call matched before the end of its chunk, in a ring that has wrapped
C33_Witness ==
    /\ Len(hist) >= 2
    /\ Last(hist).ret.kind = "Match"
    /\ ring.total_written > ring.capacity
    /\ Len(Fed) > ring.total_written
    /\ \A k \in 1..Len(hist) : hist[k].op = "process_chunk"

\* The last n elements of s
LastN(s, n) == SubSeq(s, Len(s) - n + 1, Len(s))

\* C34: recent_bytes(k) is, in write order, the last
\* min(k, capacity, total_written) bytes written since construction or the
\* last reset, for every k.
C34_RecentBytes ==
    \A k \in 0..(ring.capacity + 1) :
        recent_bytes(ring, k)
            = LastN(Written, Min(k, Min(ring.capacity, Len(Written))))

\* After a reset, the ring of capacity 2 has wrapped and holds two
\* different bytes
C34_Witness ==
    /\ Len(hist) = 3
    /\ hist[2].op = "reset"
    /\ hist[1].chunk # <<>>
    /\ ring.capacity = 2
    /\ Len(Written) = 3
    /\ recent_bytes(ring, 2) = <<97, 98>>

(***************************************************************************)
(* Claims on the end of the stream (SpecBodyAny)                           *)
(***************************************************************************)
\* C35: every on_body_chunk call with end_of_stream = true returns Allow,
\* Block or Skip and leaves the scanner complete; Continue is returned only
\* by a call without end_of_stream, on a scanner that was not complete
\* before the call and is not complete after it.
C35_TerminalAtEndOfStream ==
    /\ \A k \in 1..Len(hist) :
           /\ hist[k].eos => Terminal(hist[k].ret)
           /\ hist[k].ret.kind = "Continue"
                  => /\ ~hist[k].eos
                     /\ \A j \in 1..(k - 1) : ~Terminal(hist[j].ret)
    /\ hist # <<>> =>
           /\ Last(hist).eos => bscan.complete
           /\ Terminal(Last(hist).ret) => bscan.complete
           /\ Last(hist).ret.kind = "Continue" => ~bscan.complete

(***************************************************************************)
(* Claims on the fragment slot of the WebSocket handler (SpecWs)           *)
(***************************************************************************)
\* The frame just handled is a final Continuation frame whose complete
\* message was validated, with or without success
ContinuationValidated(last) ==
    /\ last.opcode = "Continuation"
    /\ last.fin
    /\ \/ last.ret.kind = "Continue"
       \/ /\ last.ret.kind = "Block"
          /\ last.ret.text \in {"Invalid UTF-8 in WebSocket message",
                                "Invalid JSON-RPC: {}"}

\* The frame just handled is a non-final Text frame that was accepted
TextFragmentAccepted(last) ==
    last.opcode = "Text" /\ ~last.fin /\ last.ret.kind = "Continue"

\* One step of the handler keeps the fragment slot as C36 says
FragmentSlotStep ==
    /\ (ws'.fragment_opcode.some /\ ~ws.fragment_opcode.some)
           => TextFragmentAccepted(hist'.last)
    /\ ws'.fragment_opcode.some => ws'.fragment_opcode = Some("Text")
    /\ ContinuationValidated(hist'.last)
           => /\ ~ws'.fragment_opcode.some
              /\ ws'.fragment_buffer = <<>>
    /\ hist'.last.opcode = "reset"
           => /\ ~ws'.fragment_opcode.some
              /\ ws'.fragment_buffer = <<>>

\* C36: fragment_opcode is None unless a non-final Text frame has been
\* accepted and its message is not finished; the fragment buffer is empty
\* whenever fragment_opcode is None; after a final Continuation frame has
\* been validated, successfully or not, slot and buffer are cleared.
C36_FragmentSlot ==
    /\ [](~ws.fragment_opcode.some => ws.fragment_buffer = <<>>)
    /\ [][FragmentSlotStep]_vars

\* A fragmented message has just failed its validation: the slot and the
\* buffer are cleared
C36_Witness ==
    /\ hist.frames = 2
    /\ hist.last.opcode = "Continuation"
    /\ hist.last.fin
    /\ hist.last.ret.kind = "Block"
    /\ hist.last.ret.text = "Invalid JSON-RPC: {}"
    /\ ~ws.fragment_opcode.some
    /\ ws.fragment_buffer = <<>>

(***************************************************************************)
(* SpecWsSplit: a McpWebSocketHandler with one blocked pattern, "ab" or    *)
(* "aab", fed the frames of fragmented messages.  hist holds every frame   *)
(* with its answer.                                                        *)
(***************************************************************************)
SplitFrames ==
    [opcode : {"Text"}, fin : {FALSE}, payload : {<<97>>, <<97, 97>>}]
    \cup [opcode : {"Continuation"}, fin : BOOLEAN,
          payload : {<<97>>, <<98>>, <<97, 98>>}]

SplitHandlers ==
    {init_patterns(WsNew, <<p>>, RingCapacity) : p \in {<<97, 98>>, <<97, 97, 98>>}}

WsSplitInit ==
    /\ ws \in SplitHandlers
    /\ hist = <<>>
    /\ utf8 = Unused /\ fsm = Unused /\ ring = Unused /\ bscan = Unused
    /\ ctx = Unused /\ host = Unused /\ limiter = Unused /\ ExtUnused

WsSplitFrame(frame) ==
    /\ Len(hist) < MaxFrames
    /\ \E r \in {on_frame(ws, frame.opcode, frame.payload, frame.fin)} :
           /\ ws' = r.self
           /\ hist' = Append(hist, [opcode |-> frame.opcode, fin |-> frame.fin,
                                    chunk |-> frame.payload, ret |-> r.ret])
    /\ UNCHANGED <<utf8, fsm, ring, bscan, ctx, host, limiter, extVars>>

WsSplitNext == \E frame \in SplitFrames : WsSplitFrame(frame)

SpecWsSplit == WsSplitInit /\ [][WsSplitNext]_vars

\* The payloads of the first k frames, one after the other
PayloadsTo(k) == Flatten([i \in 1..k |-> hist[i].chunk])

\* Frames 1..k are a non-final Text frame and the Continuation frames that
\* follow it, none final before frame k
FragmentedTo(k) ==
    /\ k >= 2
    /\ hist[1].opcode = "Text"
    /\ \A i \in 2..k : hist[i].opcode = "Continuation"
    /\ \A i \in 2..(k - 1) : ~hist[i].fin

\* The first occurrence of the pattern in the payloads ends in frame k and
\* starts in an earlier frame
SplitOccurrenceEndsIn(pattern, k) ==
    /\ Ends(PayloadsTo(k), <<pattern>>) # {}
    /\ Ends(PayloadsTo(k - 1), <<pattern>>) = {}
    /\ MinOf(Ends(PayloadsTo(k), <<pattern>>)) - Len(pattern.bytes)
           < Len(PayloadsTo(k - 1))

\* C37: a blocked pattern split across a non-final Text frame and the
\* Continuation frames that follow it is detected: the frame delivering the
\* pattern's last byte returns Block naming the pattern.
C37_SplitPatternBlocked ==
    \A k \in 2..Len(hist) :
        (FragmentedTo(k)
             /\ SplitOccurrenceEndsIn(ws.ring_buffer.val.scanner.patterns[1], k))
            => /\ hist[k].ret.kind = "Block"
               /\ hist[k].ret.text = "Pattern '{}' detected in WebSocket message"
               /\ hist[k].ret.arg
                      = ws.ring_buffer.val.scanner.patterns[1].name

(***************************************************************************)
(* Claims on the line buffer of the SSE handler (SpecSse)                  *)
(***************************************************************************)
\* The ceiling asked of line_buffer: the length of the longest chunk of
\* SseChunks, so that only a line spanning chunks can exceed it
SseLineCeiling == 8

\* The last call parsed its chunk up to a line feed that ends the chunk
EndedOnTerminator ==
    /\ hist # <<>>
    /\ Last(hist).ret.kind = "Continue"
    /\ Last(Last(hist).chunk) = 10

\* C38: the line buffer never exceeds a fixed ceiling, whatever the stream
\* and its chunking, and it is empty after a line terminator has been
\* processed.
C38_LineBufferCeiling ==
    /\ Len(sse.line_buffer) <= SseLineCeiling
    /\ EndedOnTerminator => sse.line_buffer = <<>>

(***************************************************************************)
(* Claims on the 32-bit sum of record_tokens (SpecRate)                    *)
(***************************************************************************)
\* C39: for every 32-bit delta and every reachable token_count,
\* record_tokens answers RateLimited whenever the mathematical sum
\* token_count + delta exceeds tokens_per_minute; no call aborts and none
\* lowers token_count.
C39_NoWrapAround ==
    hist.last.op = "record_tokens" =>
        /\ hist.last.ret.kind # "Panic"
        /\ hist.last.ret.kind \in {"Allow", "RateLimited"}
               => LastEntry.token_count >= TokensBefore
        /\ TokensBefore + hist.last.tokens > limiter.limits.tokens_per_minute
               => hist.last.ret.kind = "RateLimited"

(***************************************************************************)
(* SpecSnapshot: a root context that is configured again while a request   *)
(* is in flight.  ctx is the request context of the request under way,     *)
(* host.body the body the host has buffered for it.  hist holds the        *)
(* thread-local CONFIG as it was when ctx was created (snapshot), the      *)
(* counts of the calls, whether on_configure ran since ctx was created,    *)
(* and the last body callback with the context it was made on.             *)
(***************************************************************************)
MaxConfigures == 2   \* on_configure calls on the root context

\* {"blocked_patterns":["a"]}
BlobPatternA == <<123, 34, 98, 108, 111, 99, 107, 101, 100, 95, 112, 97, 116, 116, 101, 114, 110, 115, 34, 58, 91, 34, 97, 34, 93, 125>>

\* {"blocked_patterns":["b"],"max_body_size":1}
BlobPatternBSize1 == <<123, 34, 98, 108, 111, 99, 107, 101, 100, 95, 112, 97, 116, 116, 101, 114, 110, 115, 34, 58, 91, 34, 98, 34, 93, 44, 34, 109, 97, 120, 95, 98, 111, 100, 121, 95, 115, 105, 122, 101, 34, 58, 49, 125>>

\* {"max_body_size":0}
BlobSize0 == <<123, 34, 109, 97, 120, 95, 98, 111, 100, 121, 95, 115, 105, 122, 101, 34, 58, 48, 125>>

SnapBlobs == {None, Some(BlobPatternA), Some(BlobPatternBSize1), Some(BlobSize0)}

NoBodyCall == [cb |-> "none", buffered |-> <<>>, eos |-> FALSE, ret |-> "none",
               sent |-> <<>>, before |-> HttpContextNew(FilterConfigDefault)]

SnapInit ==
    /\ root = RootNew
    /\ ctx = create_http_context(RootNew)
    /\ host = [body |-> <<>>, sent |-> <<>>]
    /\ hist = [snapshot |-> RootNew.CONFIG, configures |-> 0, contexts |-> 1,
               calls |-> 0, stale |-> FALSE, last |-> NoBodyCall]
    /\ utf8 = Unused /\ fsm = Unused /\ ring = Unused /\ bscan = Unused
    /\ limiter = Unused /\ ws = Unused /\ sse = Unused

SnapConfigure(blob) ==
    /\ hist.configures < MaxConfigures
    /\ root' = on_configure(root, blob).self
    /\ hist' = [hist EXCEPT !.configures = @ + 1, !.stale = TRUE,
                            !.last = NoBodyCall]
    /\ UNCHANGED <<utf8, fsm, ring, bscan, ctx, host, limiter, ws, sse>>

\* The next request begins
SnapCreateContext ==
    /\ hist.contexts < MaxContexts
    /\ ctx' = create_http_context(root)
    /\ host' = [body |-> <<>>, sent |-> <<>>]
    /\ hist' = [hist EXCEPT !.snapshot = root.CONFIG, !.contexts = @ + 1,
                            !.calls = 0, !.stale = FALSE, !.last = NoBodyCall]
    /\ UNCHANGED <<utf8, fsm, ring, bscan, limiter, ws, sse, root>>

\* The host has buffered `more` further bytes and reports the new total
SnapRequestBody(more, end_of_stream) ==
    /\ hist.calls < MaxCalls
    /\ Len(host.body) + Len(more) <= MaxLen
    /\ \E r \in {on_http_request_body(ctx, host.body \o more,
                                      Len(host.body \o more), end_of_stream)} :
           /\ ctx' = r.self
           /\ host' = [body |-> host.body \o more, sent |-> host.sent \o r.sent]
           /\ hist' = [hist EXCEPT
                  !.calls = @ + 1,
                  !.last = [cb |-> "request_body",
                            buffered |-> host.body \o more,
                            eos |-> end_of_stream, ret |-> r.ret,
                            sent |-> r.sent, before |-> ctx]]
    /\ UNCHANGED <<utf8, fsm, ring, bscan, limiter, ws, sse, root>>

SnapNext ==
    \/ \E blob \in SnapBlobs : SnapConfigure(blob)
    \/ SnapCreateContext
    \/ \E more \in SeqsUpTo({97, 98}, 1), eos \in BOOLEAN :
           SnapRequestBody(more, eos)

SpecSnapshot == SnapInit /\ [][SnapNext]_vars

\* What the body callback answers on the context `before` when it is
\* checked against the configuration config
AnswerUnder(config, last) ==
    on_http_request_body([last.before EXCEPT !.config = config], last.buffered,
                         Len(last.buffered), last.eos)

\* C40: a request context uses the configuration that was current when it
\* was created: an on_configure between two callbacks of the request
\* changes neither the blocked patterns nor the max_body_size it is checked
\* against, and a context created afterwards has the new configuration.
C40_ConfigSnapshot ==
    /\ ctx.config = hist.snapshot
    /\ ~hist.stale => ctx.config = root.CONFIG
    /\ hist.last.cb = "request_body" =>
           /\ hist.last.ret = AnswerUnder(hist.snapshot, hist.last).ret
           /\ hist.last.sent = AnswerUnder(hist.snapshot, hist.last).sent

\* A request created under the pattern "a" is blocked for a body with "a"
\* after on_configure has replaced the pattern by "b"
C40_Witness ==
    /\ hist.stale
    /\ hist.snapshot.blocked_patterns = <<<<97>>>>
    /\ root.CONFIG.blocked_patterns = <<<<98>>>>
    /\ hist.last.cb = "request_body"
    /\ hist.last.buffered = <<97>>
    /\ hist.last.ret = "Pause"
    /\ hist.last.sent # <<>>
    /\ AnswerUnder(root.CONFIG, hist.last).sent = <<>>

====
